---- MODULE Spec2Model ----
(***************************************************************************)
(* State-machine model of the foodgram backend (kateboosha/foodgram).      *)
(*                                                                         *)
(* The repository ships two sets of request handlers over the same tables: *)
(*   backend/api/views.py       (names prefixed api_ below)                *)
(*   backend/foodgram/views.py  (names prefixed foodgram_ below)           *)
(* Each handler is one action.  Every action records the HTTP response it  *)
(* returns in resp.  Text, name and image of a recipe are not modelled.    *)
(***************************************************************************)
EXTENDS Integers, Sequences, FiniteSets, TLC

(***************************************************************************)
(* Bounds of the model.                                                    *)
(***************************************************************************)
\* most rows one (user, recipe) pair may hold in a table without a unique
\* constraint before the model stops adding more
MaxRows == 2
\* number of recipe ids
MaxRecipes == 2
\* largest ingredient amount a payload carries
MaxAmount == 2
\* number of strings get_random_string can return
MaxHashes == 3
\* most recipes Recipe.save() inserts before the model stops inserting
MaxSaved == 4
\* longest list of ingredients handed to a renderer
MaxEntries == 37

(***************************************************************************)
(* Users, recipes and reference data.                                      *)
(***************************************************************************)
Users == {"A", "B"}
Anonymous == "anon"
Actors == Users \cup {Anonymous}
RecipeIds == 1..MaxRecipes
\* a primary key no row has
NoSuchId == 0

\* User table: the ids of the users that exist.  A user whose row is gone has
\* no token left: Token.user is on_delete=CASCADE.
VARIABLE users

\* request.user.is_authenticated
is_authenticated(u) == u \in users

\* the request carries the token of a user whose row is gone:
\* TokenAuthentication refuses it before any permission is looked at
invalid_token(u) == u \in Users \ users

\* Ingredient rows (bulk-loaded by import_csv; unique on (name, unit), so one
\* name may occur with two units).
IngredientIds == {1, 2, 3}
Ingredient ==
  [i \in IngredientIds |->
     CASE i = 1 -> [name |-> "flour", measurement_unit |-> "g"]
       [] i = 2 -> [name |-> "eggs",  measurement_unit |-> "pcs"]
       [] i = 3 -> [name |-> "flour", measurement_unit |-> "kg"]]

TagIds == {1, 2}

\* The values of short_link_hash: strings get_random_string draws (six
\* characters of a-z, A-Z, 0-9, as the column's max_length=6 allows).  Some
\* are what get_link computes for a recipe id.
HashStrings == <<"Ab3xYz", "c4ca42", "c81e72", "q9Zk0P", "eccbc8">>

Hashes == {HashStrings[i] : i \in 1..MaxHashes}

\* hashlib.md5(str(id).encode()).hexdigest()[:6]
md5_6(id) ==
  <<"cfcd20", "c4ca42", "c81e72", "eccbc8", "a87ff6", "e4da3b", "167909", "8f14e4",
    "c9f0f8", "45c48c", "d3d944", "6512bd", "c20ad4", "c51ce4", "aab323", "9bf31c">>[id + 1]

VARIABLES
  favorite_unique,    \* whether the favorite table carries a unique (user, recipe) constraint
  USE_POSTGRES,       \* settings.py: the database is PostgreSQL (TRUE) or SQLite (FALSE)
  recipes,            \* Recipe table: id -> [author, cooking_time, short_link_hash]
  recipe_ingredient,  \* RecipeIngredient table: recipe id -> its rows in primary-key order
  recipe_tags,        \* Recipe.tags link table: set of <<recipe, tag>>
  favorite,           \* Favorite table: <<user, recipe>> -> number of rows
  shopping_cart,      \* ShoppingCart table: <<user, recipe>> -> number of rows
  subscription,       \* Subscription table: set of <<user, subscribed_to>>
  resp,               \* the response of the last request handled
  req,                \* concurrent add-to-favorites requests in flight
  pdf,                \* entry lines of the last shopping list drawn, top to bottom
  upd,                \* the recipe update whose statements are being executed
  gen,                \* the Recipe.save() call being executed
  doc                 \* the document generate_pdf drew last

vars == <<users, favorite_unique, USE_POSTGRES, recipes, recipe_ingredient, recipe_tags, favorite,
          shopping_cart, subscription, resp, req, pdf, upd, gen, doc>>

Pairs == Users \X RecipeIds

\* one entry of a payload's ingredients list.  amount_is tells what the entry
\* carries under the key 'amount': a number (held in amount), text that is
\* no number, nothing at all, or a number above 2^63 - 1, which the integer
\* column of RecipeIngredient.amount stores under neither database (amount
\* is unused then).
Item(id, amount) == [id |-> id, amount |-> amount, amount_is |-> "number"]

\* an entry whose amount the column stores under neither database
BeyondColumn(id) == [Item(id, 0) EXCEPT !.amount_is = "beyond_column"]

\* request.data of a recipe request: fields names the keys the payload
\* carries; a key it lacks holds the empty list or zero here
NoData == [fields |-> {}, ingredients |-> <<>>, tags |-> <<>>, cooking_time |-> 0]

\* a response: the handler, the acting user, the object addressed, the HTTP
\* status, what the body says, the users a listing returns, the field
\* errors of a rejected payload, and the payload the request carried
Response(op, u, target, status, detail) ==
  [op |-> op, user |-> u, target |-> target, status |-> status, detail |-> detail,
   listed |-> {}, errors |-> {}, data |-> NoData]

NoResponse == Response("none", Anonymous, NoSuchId, 0, "none")

\* Recipe.objects.filter(id=pk).exists(), as get_object() decides 404
RecipeExists(pk) == pk \in DOMAIN recipes

\* Model.objects.filter(user=u, recipe=r).exists() on a (user, recipe) table
RowExists(table, u, r) == table[<<u, r>>] > 0

\* Model.objects.create(user=u, recipe=r): one more row for the pair
CreateRow(table, u, r) == [table EXCEPT ![<<u, r>>] = @ + 1]

\* queryset.delete() on filter(user=u, recipe=r): every row of the pair
DeleteRows(table, u, r) == [table EXCEPT ![<<u, r>>] = 0]

\* instance.delete() on one row of the pair
DeleteOneRow(table, u, r) == [table EXCEPT ![<<u, r>>] = @ - 1]

(***************************************************************************)
(* The recipes every specification starts from: recipe r is authored by A  *)
(* when r is odd and by B when r is even.                                  *)
(***************************************************************************)
FixtureAuthor(r) == IF r % 2 = 1 THEN "A" ELSE "B"

\* the hash recipe r was saved with
FixtureHash(r) == IF r = 1 THEN "Ab3xYz" ELSE IF r = 2 THEN "c4ca42" ELSE "q9Zk0P"

FixtureRecipes ==
  [r \in RecipeIds |-> [author |-> FixtureAuthor(r), cooking_time |-> 1,
                        short_link_hash |-> FixtureHash(r)]]

\* recipe 1 holds flour (g) and eggs, every other recipe flour (kg) and eggs
FixtureRows ==
  [r \in RecipeIds |->
     IF r = 1
     THEN <<[ingredient |-> 1, amount |-> 1], [ingredient |-> 2, amount |-> 2]>>
     ELSE <<[ingredient |-> 3, amount |-> 1], [ingredient |-> 2, amount |-> 1]>>]

FixtureTags == {<<r, 1>> : r \in RecipeIds}

EmptyTable == [p \in Pairs |-> 0]

NoRequests == [i \in {1, 2} |-> [pc |-> "idle", user |-> Anonymous, recipe |-> NoSuchId,
                                 status |-> 0, detail |-> "none"]]

\* no recipe update is being executed.  Of an update being executed upd[i] holds
\* the statement reached (pc), the acting user, the recipe, the payload, the
\* entry _save_ingredients creates next, and the rows the recipe held when
\* the request arrived.
NoUpdate == [pc |-> "idle", user |-> Anonymous, recipe |-> NoSuchId, data |-> NoData,
             next |-> 0, old_rows |-> <<>>]

\* none of the two workers is executing a recipe update
NoUpdates == [i \in {1, 2} |-> NoUpdate]

\* no Recipe.save() is being executed.  Of a call being executed gen holds
\* the statement reached (pc), the recipe's author and the local short_link.
NoSave == [pc |-> "idle", author |-> Anonymous, short_link |-> ""]

\* nothing has been drawn
NoDocument == <<>>

InitBase ==
  /\ users = Users
  /\ recipes = FixtureRecipes
  /\ recipe_ingredient = FixtureRows
  /\ recipe_tags = FixtureTags
  /\ favorite = EmptyTable
  /\ shopping_cart = EmptyTable
  /\ subscription = {}
  /\ resp = NoResponse
  /\ req = NoRequests
  /\ pdf = <<>>
  /\ upd = NoUpdates
  /\ gen = NoSave
  /\ doc = NoDocument

\* The favorite table's schema.  Migration 0009 adds UniqueConstraint
\* unique_favorite; models.py declares the constraint on the abstract
\* UserRecipeBase.Meta, which Favorite.Meta and ShoppingCart.Meta do not
\* extend, so the model state carries none.  Which of the two the database
\* has depends on the migrations applied; neither gives the shopping_cart
\* table a unique constraint.
\* USE_POSTGRES is read from the environment and is False when unset.  The
\* database decides the exception of an INSERT whose amount is out of range
\* and nothing else here, so only the runs that send such an amount start
\* under either database.
InitSchemaEither == InitBase /\ favorite_unique \in BOOLEAN /\ USE_POSTGRES = FALSE

InitSchemaModels == InitBase /\ favorite_unique = FALSE /\ USE_POSTGRES = FALSE

InitDatabaseEither == InitBase /\ favorite_unique = FALSE /\ USE_POSTGRES \in BOOLEAN

(***************************************************************************)
(* backend/api/views.py: RecipeViewSet.favorite                            *)
(***************************************************************************)
\* FavoriteSerializer.validate, then FavoriteSerializer.create, then the body
\* of the 201 response: RecipeSerializer(recipe).data reads the attribute
\* 'description' for its field text, which models.py's Recipe lacks, so the
\* request ends in AttributeError once the row is saved
api_add_to_favorites(u, r) ==
  IF RowExists(favorite, u, r)
  THEN /\ resp' = Response("api_favorite_post", u, r, 400, "already_in_favorites")
       /\ UNCHANGED favorite
  ELSE /\ favorite' = CreateRow(favorite, u, r)
       /\ resp' = Response("api_favorite_post", u, r, 500, "AttributeError")

\* Favorite.objects.filter(user, recipe): exists() then delete() of the queryset
api_remove_from_favorites(u, r) ==
  IF RowExists(favorite, u, r)
  THEN /\ favorite' = DeleteRows(favorite, u, r)
       /\ resp' = Response("api_favorite_delete", u, r, 204, "removed_from_favorites")
  ELSE /\ resp' = Response("api_favorite_delete", u, r, 400, "not_in_favorites")
       /\ UNCHANGED favorite

api_favorite(u, pk, method) ==
  /\ IF ~is_authenticated(u)
     THEN /\ resp' = Response("api_favorite_" \o method, u, pk, 401, "not_authenticated")
          /\ UNCHANGED favorite
     ELSE IF ~RecipeExists(pk)
     THEN /\ resp' = Response("api_favorite_" \o method, u, pk, 404, "not_found")
          /\ UNCHANGED favorite
     ELSE IF method = "post"
     THEN api_add_to_favorites(u, pk)
     ELSE api_remove_from_favorites(u, pk)
  /\ UNCHANGED <<users, favorite_unique, USE_POSTGRES, recipes, recipe_ingredient, recipe_tags,
                 shopping_cart, subscription, req, pdf, upd,
                 gen, doc>>

(***************************************************************************)
(* backend/foodgram/views.py: RecipeViewSet.favorite / unfavorite          *)
(***************************************************************************)
\* Favorite.objects.create with no existence check: the insert fails on the
\* unique constraint when the table has one, and adds a second row otherwise
foodgram_favorite(u, pk) ==
  /\ IF ~is_authenticated(u)
     THEN /\ resp' = Response("foodgram_favorite", u, pk, 401, "not_authenticated")
          /\ UNCHANGED favorite
     ELSE IF ~RecipeExists(pk)
     THEN /\ resp' = Response("foodgram_favorite", u, pk, 404, "not_found")
          /\ UNCHANGED favorite
     ELSE IF favorite_unique /\ RowExists(favorite, u, pk)
     THEN /\ resp' = Response("foodgram_favorite", u, pk, 500, "IntegrityError")
          /\ UNCHANGED favorite
     ELSE /\ favorite[<<u, pk>>] < MaxRows
          /\ favorite' = CreateRow(favorite, u, pk)
          /\ resp' = Response("foodgram_favorite", u, pk, 200, "added_to_favorites")
  /\ UNCHANGED <<users, favorite_unique, USE_POSTGRES, recipes, recipe_ingredient, recipe_tags,
                 shopping_cart, subscription, req, pdf, upd,
                 gen, doc>>

\* filter(...).delete() and an unconditional 200
foodgram_unfavorite(u, pk) ==
  /\ IF ~is_authenticated(u)
     THEN /\ resp' = Response("foodgram_unfavorite", u, pk, 401, "not_authenticated")
          /\ UNCHANGED favorite
     ELSE IF ~RecipeExists(pk)
     THEN /\ resp' = Response("foodgram_unfavorite", u, pk, 404, "not_found")
          /\ UNCHANGED favorite
     ELSE /\ favorite' = DeleteRows(favorite, u, pk)
          /\ resp' = Response("foodgram_unfavorite", u, pk, 200, "removed_from_favorites")
  /\ UNCHANGED <<users, favorite_unique, USE_POSTGRES, recipes, recipe_ingredient, recipe_tags,
                 shopping_cart, subscription, req, pdf, upd,
                 gen, doc>>

(***************************************************************************)
(* backend/foodgram/views.py: FavoriteViewSet, the /favorites/ resource    *)
(* route (a ModelViewSet whose queryset is the acting user's rows).        *)
(***************************************************************************)
\* perform_create saves user=request.user; the serializer's only field,
\* recipe, is read-only, so the insert carries no recipe and is refused
foodgram_FavoriteViewSet_create(u) ==
  /\ resp' = IF ~is_authenticated(u)
             THEN Response("favorites_create", u, NoSuchId, 401, "not_authenticated")
             ELSE Response("favorites_create", u, NoSuchId, 500, "IntegrityError")
  /\ UNCHANGED <<users, favorite_unique, USE_POSTGRES, recipes, recipe_ingredient, recipe_tags, favorite,
                 shopping_cart, subscription, req, pdf, upd,
                 gen, doc>>

\* DELETE /favorites/{pk}/ where pk is a row of (owner, r): get_object looks
\* the row up in Favorite.objects.filter(user=request.user)
foodgram_FavoriteViewSet_destroy(u, owner, r) ==
  /\ IF ~is_authenticated(u)
     THEN /\ resp' = Response("favorites_destroy", u, r, 401, "not_authenticated")
          /\ UNCHANGED favorite
     ELSE IF owner = u /\ r \in RecipeIds /\ RowExists(favorite, owner, r)
     THEN /\ favorite' = DeleteOneRow(favorite, owner, r)
          /\ resp' = Response("favorites_destroy", u, r, 204, "deleted")
     ELSE /\ resp' = Response("favorites_destroy", u, r, 404, "not_found")
          /\ UNCHANGED favorite
  /\ UNCHANGED <<users, favorite_unique, USE_POSTGRES, recipes, recipe_ingredient, recipe_tags,
                 shopping_cart, subscription, req, pdf, upd,
                 gen, doc>>

(***************************************************************************)
(* backend/api/views.py: RecipeViewSet.shopping_cart                       *)
(***************************************************************************)
api_add_to_cart(u, r) ==
  IF RowExists(shopping_cart, u, r)
  THEN /\ resp' = Response("api_shopping_cart_post", u, r, 400, "already_in_cart")
       /\ UNCHANGED shopping_cart
  ELSE /\ shopping_cart' = CreateRow(shopping_cart, u, r)
       /\ resp' = Response("api_shopping_cart_post", u, r, 201, "added_to_cart")

\* filter(...).first(), then delete() of that one row
api_remove_from_cart(u, r) ==
  IF RowExists(shopping_cart, u, r)
  THEN /\ shopping_cart' = DeleteOneRow(shopping_cart, u, r)
       /\ resp' = Response("api_shopping_cart_delete", u, r, 204, "removed_from_cart")
  ELSE /\ resp' = Response("api_shopping_cart_delete", u, r, 400, "not_in_cart")
       /\ UNCHANGED shopping_cart

api_shopping_cart(u, pk, method) ==
  /\ IF ~is_authenticated(u)
     THEN /\ resp' = Response("api_shopping_cart_" \o method, u, pk, 401, "not_authenticated")
          /\ UNCHANGED shopping_cart
     ELSE IF ~RecipeExists(pk)
     THEN /\ resp' = Response("api_shopping_cart_" \o method, u, pk, 404, "not_found")
          /\ UNCHANGED shopping_cart
     ELSE IF method = "post"
     THEN api_add_to_cart(u, pk)
     ELSE api_remove_from_cart(u, pk)
  /\ UNCHANGED <<users, favorite_unique, USE_POSTGRES, recipes, recipe_ingredient, recipe_tags,
                 favorite, subscription, req, pdf, upd,
                 gen, doc>>

(***************************************************************************)
(* backend/foodgram/views.py: RecipeViewSet.add_to_cart / remove_from_cart *)
(***************************************************************************)
\* ShoppingCart.objects.create with no existence check; the shopping_cart
\* table has no unique constraint, so every call adds a row
foodgram_add_to_cart(u, pk) ==
  /\ IF ~is_authenticated(u)
     THEN /\ resp' = Response("foodgram_add_to_cart", u, pk, 401, "not_authenticated")
          /\ UNCHANGED shopping_cart
     ELSE IF ~RecipeExists(pk)
     THEN /\ resp' = Response("foodgram_add_to_cart", u, pk, 404, "not_found")
          /\ UNCHANGED shopping_cart
     ELSE /\ shopping_cart[<<u, pk>>] < MaxRows
          /\ shopping_cart' = CreateRow(shopping_cart, u, pk)
          /\ resp' = Response("foodgram_add_to_cart", u, pk, 200, "added_to_cart")
  /\ UNCHANGED <<users, favorite_unique, USE_POSTGRES, recipes, recipe_ingredient, recipe_tags,
                 favorite, subscription, req, pdf, upd,
                 gen, doc>>

foodgram_remove_from_cart(u, pk) ==
  /\ IF ~is_authenticated(u)
     THEN /\ resp' = Response("foodgram_remove_from_cart", u, pk, 401, "not_authenticated")
          /\ UNCHANGED shopping_cart
     ELSE IF ~RecipeExists(pk)
     THEN /\ resp' = Response("foodgram_remove_from_cart", u, pk, 404, "not_found")
          /\ UNCHANGED shopping_cart
     ELSE /\ shopping_cart' = DeleteRows(shopping_cart, u, pk)
          /\ resp' = Response("foodgram_remove_from_cart", u, pk, 200, "removed_from_cart")
  /\ UNCHANGED <<users, favorite_unique, USE_POSTGRES, recipes, recipe_ingredient, recipe_tags,
                 favorite, subscription, req, pdf, upd,
                 gen, doc>>

(***************************************************************************)
(* backend/foodgram/views.py: ShoppingCartViewSet, the /shopping_cart/     *)
(* resource route: a ModelViewSet over ShoppingCart.objects.all() with no  *)
(* serializer_class.                                                       *)
(***************************************************************************)
\* POST /shopping_cart/: get_serializer_class() asserts a serializer_class
foodgram_ShoppingCartViewSet_create(u) ==
  /\ resp' = IF ~is_authenticated(u)
             THEN Response("shopping_cart_create", u, NoSuchId, 401, "not_authenticated")
             ELSE Response("shopping_cart_create", u, NoSuchId, 500, "AssertionError")
  /\ UNCHANGED <<users, favorite_unique, USE_POSTGRES, recipes, recipe_ingredient, recipe_tags, favorite,
                 shopping_cart, subscription, req, pdf, upd,
                 gen, doc>>

\* DELETE /shopping_cart/{pk}/ where pk is a row of (owner, r): get_object
\* looks the row up in ShoppingCart.objects.all(); DestroyModelMixin deletes it
foodgram_ShoppingCartViewSet_destroy(u, owner, r) ==
  /\ IF ~is_authenticated(u)
     THEN /\ resp' = Response("shopping_cart_destroy", u, r, 401, "not_authenticated")
          /\ UNCHANGED shopping_cart
     ELSE IF r \in RecipeIds /\ RowExists(shopping_cart, owner, r)
     THEN /\ shopping_cart' = DeleteOneRow(shopping_cart, owner, r)
          /\ resp' = Response("shopping_cart_destroy", u, r, 204, "deleted")
     ELSE /\ resp' = Response("shopping_cart_destroy", u, r, 404, "not_found")
          /\ UNCHANGED shopping_cart
  /\ UNCHANGED <<users, favorite_unique, USE_POSTGRES, recipes, recipe_ingredient, recipe_tags,
                 favorite, subscription, req, pdf, upd,
                 gen, doc>>

(***************************************************************************)
(* backend/foodgram/views.py: ShoppingCartViewSet.download_shopping_list   *)
(***************************************************************************)
\* number of entries of the list that are r
CountIn(recipe_ids, r) == Cardinality({k \in 1..Len(recipe_ids) : recipe_ids[k] = r})

\* shopping_cart.values_list('recipe_id', flat=True): the recipe id of every
\* ShoppingCart row of the user.  The queryset has no ordering and the table
\* keeps none here, so the rows come in any order.
values_list(u) ==
  LET rows == {r \in RecipeIds : RowExists(shopping_cart, u, r)}
      total == IF rows = {} THEN 0
               ELSE LET RECURSIVE sum(_)
                        sum(S) == IF S = {} THEN 0
                                  ELSE LET r == CHOOSE x \in S : TRUE
                                       IN  shopping_cart[<<u, r>>] + sum(S \ {r})
                    IN  sum(rows)
  IN  {recipe_ids \in [1..total -> rows] :
         \A r \in rows : CountIn(recipe_ids, r) = shopping_cart[<<u, r>>]}

\* RecipeIngredient.objects.filter(recipe_id__in=recipe_ids) for the recipes
\* r..1, in the order of RecipeIngredient.Meta.ordering = ('recipe',): by the
\* related Recipe's own ordering ('-created_at',), newest recipe first, the
\* rows of one recipe in primary-key order.  Ids are handed out in creation
\* order, so the newest recipe is the one with the largest id.
RECURSIVE recipe_ingredients_from(_, _)
recipe_ingredients_from(recipe_ids, r) ==
  IF r = 0
  THEN <<>>
  ELSE (IF RecipeExists(r) /\ \E k \in 1..Len(recipe_ids) : recipe_ids[k] = r
        THEN recipe_ingredient[r]
        ELSE <<>>) \o recipe_ingredients_from(recipe_ids, r - 1)

\* the rows of the recipes of recipe_ids read recipe by recipe in the order
\* of recipe_ids, instead of by one query with recipe_id__in
RECURSIVE recipe_ingredients_in_cart_order(_)
recipe_ingredients_in_cart_order(recipe_ids) ==
  IF recipe_ids = <<>>
  THEN <<>>
  ELSE (IF RecipeExists(Head(recipe_ids)) THEN recipe_ingredient[Head(recipe_ids)] ELSE <<>>)
       \o recipe_ingredients_in_cart_order(Tail(recipe_ids))

recipe_ingredients(recipe_ids) == recipe_ingredients_from(recipe_ids, MaxRecipes)

\* position of the entry keyed by name in the list, 0 when there is none
KeyIndex(ingredients, name) ==
  IF \E k \in 1..Len(ingredients) : ingredients[k].name = name
  THEN CHOOSE k \in 1..Len(ingredients) : ingredients[k].name = name
  ELSE 0

\* the loop over recipe_ingredients filling the dict `ingredients`, which is
\* keyed by ingredient name and keeps its keys in insertion order
RECURSIVE collect_ingredients(_, _)
collect_ingredients(ingredients, items) ==
  IF items = <<>>
  THEN ingredients
  ELSE LET item == Head(items)
           name == Ingredient[item.ingredient].name
           measurement_unit == Ingredient[item.ingredient].measurement_unit
           k == KeyIndex(ingredients, name)
       IN  IF k # 0
           THEN collect_ingredients(
                  [ingredients EXCEPT ![k].amount = @ + item.amount], Tail(items))
           ELSE collect_ingredients(
                  Append(ingredients, [name |-> name, measurement_unit |-> measurement_unit,
                                       amount |-> item.amount]),
                  Tail(items))

\* A4[1] of reportlab.lib.pagesizes is 841.89 points.  The cursor starts at
\* height - 50 and moves down by whole points, so it keeps the fraction .89
\* and every comparison with 50 comes out as it does on the whole part,
\* which is what the model holds.
A4_height == 841

\* a line drawn by drawString: the pieces of its text, its height on the page
\* and the font in effect
Line(text, y, font) == [text |-> text, y |-> y, font |-> font]

\* f"{name} ({data['measurement_unit']}) — {data['amount']}"
ingredient_text(name, data) ==
  <<name, " (", data.measurement_unit, ") - ", ToString(data.amount)>>

\* the loop over ingredients.items() and the last showPage(): pages holds the
\* pages shown, page the lines drawn on the page not yet shown
RECURSIVE draw_ingredients(_, _, _, _)
draw_ingredients(items, y_position, pages, page) ==
  IF items = <<>>
  THEN Append(pages, page)
  ELSE LET drawn == Append(page, Line(ingredient_text(Head(items).name, Head(items)),
                                      y_position, "Helvetica 12"))
       IN  IF y_position - 20 < 50
           THEN draw_ingredients(Tail(items), A4_height - 50, Append(pages, drawn), <<>>)
           ELSE draw_ingredients(Tail(items), y_position - 20, pages, drawn)

\* the canvas of download_shopping_list: the title, then the lines
draw_shopping_list(ingredients) ==
  draw_ingredients(ingredients, A4_height - 50 - 30, <<>>,
                   <<Line(<<"shopping list">>, A4_height - 50, "Helvetica-Bold 16")>>)

\* GET /shopping_cart/download_shopping_list/: one line is drawn per key of
\* the dict, in the dict's order
download_shopping_list(u) ==
  /\ IF ~is_authenticated(u)
     THEN /\ resp' = Response("download_shopping_list", u, NoSuchId, 401, "not_authenticated")
          /\ UNCHANGED <<pdf, doc>>
     ELSE /\ \E recipe_ids \in values_list(u) :
               pdf' = collect_ingredients(<<>>, recipe_ingredients(recipe_ids))
          /\ doc' = draw_shopping_list(pdf')
          /\ resp' = Response("download_shopping_list", u, NoSuchId, 200, "application/pdf")
  /\ UNCHANGED <<users, favorite_unique, USE_POSTGRES, recipes, recipe_ingredient, recipe_tags,
                 favorite, shopping_cart, subscription, req, upd, gen>>

(***************************************************************************)
(* backend/api/utils.py: generate_pdf                                      *)
(***************************************************************************)
\* letter[1] of reportlab.lib.pagesizes, in points
letter_height == 792

\* f"{ingredient['ingredient__name']}: {ingredient['total_amount']} "
\* f"{ingredient['ingredient__measurement_unit']}"
generate_pdf_text(ingredient) ==
  <<ingredient.ingredient__name, ": ", ToString(ingredient.total_amount), " ",
    ingredient.ingredient__measurement_unit>>

\* the loop over ingredients and the showPage() after it
RECURSIVE generate_pdf_loop(_, _, _, _)
generate_pdf_loop(ingredients, y, pages, page) ==
  IF ingredients = <<>>
  THEN Append(pages, page)
  ELSE LET drawn == Append(page, Line(generate_pdf_text(Head(ingredients)), y,
                                      "DejaVuSans 12"))
       IN  IF y - 20 < 40
           THEN generate_pdf_loop(Tail(ingredients), letter_height - 40,
                                  Append(pages, drawn), <<>>)
           ELSE generate_pdf_loop(Tail(ingredients), y - 20, pages, drawn)

\* the pages of the document generate_pdf(user, ingredients) writes
generate_pdf(username, ingredients) ==
  LET header == Line(<<"shopping list for user: ", username>>, letter_height - 40,
                     "DejaVuSans 12")
  IN  IF ingredients = <<>>
      THEN << <<header, Line(<<"shopping list is empty">>, letter_height - 40 - 20,
                             "DejaVuSans 12")>> >>
      ELSE generate_pdf_loop(ingredients, letter_height - 40 - 20, <<>>, <<header>>)

\* a call generate_pdf(user, ingredients); the HttpResponse it returns is
\* recorded with the number of entries it was given
generate_pdf_call(u, ingredients) ==
  /\ is_authenticated(u)
  /\ doc' = generate_pdf(u, ingredients)
  /\ resp' = Response("generate_pdf", u, Len(ingredients), 200, "application/pdf")
  /\ UNCHANGED <<users, favorite_unique, USE_POSTGRES, recipes, recipe_ingredient, recipe_tags, favorite,
                 shopping_cart, subscription, req, pdf, upd, gen>>

\* the part of download_shopping_list after the dict is filled, for a dict
\* `ingredients` given
download_shopping_list_draw(u, ingredients) ==
  /\ is_authenticated(u)
  /\ pdf' = ingredients
  /\ doc' = draw_shopping_list(ingredients)
  /\ resp' = Response("download_shopping_list", u, NoSuchId, 200, "application/pdf")
  /\ UNCHANGED <<users, favorite_unique, USE_POSTGRES, recipes, recipe_ingredient, recipe_tags, favorite,
                 shopping_cart, subscription, req, upd, gen>>

(***************************************************************************)
(* backend/api/views.py: CustomViewSet.subscribe                           *)
(***************************************************************************)
\* ids of the User table, and one id that is no user's
UserIds == Users \cup {"nobody"}

\* Subscription.Meta.constraints: unique_subscription and
\* prevent_self_subscription decide whether the table accepts the row
Subscription_insert_allowed(u, id) == u # id /\ <<u, id>> \notin subscription

\* the recipes_limit query parameter: absent, a number, or text int() refuses
RecipesLimits == {"absent", "0", "1", "abc"}

\* author.recipes.all()[:int(recipes_limit)] holds a recipe: the author has
\* one and the limit does not cut the list down to nothing
recipes_to_serialize(author, recipes_limit) ==
  recipes_limit # "0" /\ \E r \in DOMAIN recipes : recipes[r].author = author

\* the response built after the row is written: int(recipes_limit) raises
\* ValueError on text that is no number, and RecipeSerializer(recipes,
\* many=True).data raises AttributeError on the first recipe it is given
\* (its field text reads the attribute 'description', which Recipe lacks)
subscribe_response(u, id, recipes_limit) ==
  IF recipes_limit = "abc"
  THEN Response("api_subscribe", u, id, 500, "ValueError")
  ELSE IF recipes_to_serialize(id, recipes_limit)
  THEN Response("api_subscribe", u, id, 500, "AttributeError")
  ELSE Response("api_subscribe", u, id, 201, "created")

\* api_subscribe with the comparison of the target with the acting user left out
api_subscribe_no_self_check(u, id, recipes_limit) ==
  /\ IF ~is_authenticated(u)
     THEN /\ resp' = Response("api_subscribe", u, id, 401, "not_authenticated")
          /\ UNCHANGED subscription
     ELSE IF id \notin users
     THEN /\ resp' = Response("api_subscribe", u, id, 404, "not_found")
          /\ UNCHANGED subscription
     ELSE IF <<u, id>> \in subscription
     THEN /\ resp' = Response("api_subscribe", u, id, 400, "already_subscribed")
          /\ UNCHANGED subscription
     ELSE IF ~Subscription_insert_allowed(u, id)
     THEN /\ resp' = Response("api_subscribe", u, id, 500, "IntegrityError")
          /\ UNCHANGED subscription
     ELSE /\ subscription' = subscription \cup {<<u, id>>}
          /\ resp' = subscribe_response(u, id, recipes_limit)
  /\ UNCHANGED <<users, favorite_unique, USE_POSTGRES, recipes, recipe_ingredient, recipe_tags,
                 favorite, shopping_cart, req, pdf, upd,
                 gen, doc>>

\* POST /users/{id}/subscribe/
api_subscribe(u, id, recipes_limit) ==
  /\ IF ~is_authenticated(u)
     THEN /\ resp' = Response("api_subscribe", u, id, 401, "not_authenticated")
          /\ UNCHANGED subscription
     ELSE IF id \notin users
     THEN /\ resp' = Response("api_subscribe", u, id, 404, "not_found")
          /\ UNCHANGED subscription
     ELSE IF id = u
     THEN /\ resp' = Response("api_subscribe", u, id, 400, "self_subscription")
          /\ UNCHANGED subscription
     ELSE IF <<u, id>> \in subscription
     THEN /\ resp' = Response("api_subscribe", u, id, 400, "already_subscribed")
          /\ UNCHANGED subscription
     ELSE IF ~Subscription_insert_allowed(u, id)
     THEN /\ resp' = Response("api_subscribe", u, id, 500, "IntegrityError")
          /\ UNCHANGED subscription
     ELSE /\ subscription' = subscription \cup {<<u, id>>}
          /\ resp' = subscribe_response(u, id, recipes_limit)
  /\ UNCHANGED <<users, favorite_unique, USE_POSTGRES, recipes, recipe_ingredient, recipe_tags,
                 favorite, shopping_cart, req, pdf, upd,
                 gen, doc>>

\* GET /users/subscriptions/: the authors the acting user follows; the loop
\* over them slices author.recipes.all()[:int(recipes_limit)] and serializes
\* the slice with RecipeSerializer
api_subscriptions(u, recipes_limit) ==
  /\ resp' = IF ~is_authenticated(u)
             THEN Response("api_subscriptions", u, u, 401, "not_authenticated")
             ELSE IF recipes_limit = "abc" /\ \E t \in Users : <<u, t>> \in subscription
             THEN Response("api_subscriptions", u, u, 500, "ValueError")
             ELSE IF \E t \in Users : /\ <<u, t>> \in subscription
                                      /\ recipes_to_serialize(t, recipes_limit)
             THEN Response("api_subscriptions", u, u, 500, "AttributeError")
             ELSE [Response("api_subscriptions", u, u, 200, "ok")
                     EXCEPT !.listed = {t \in Users : <<u, t>> \in subscription}]
  /\ UNCHANGED <<users, favorite_unique, USE_POSTGRES, recipes, recipe_ingredient, recipe_tags,
                 favorite, shopping_cart, subscription, req, pdf, upd,
                 gen, doc>>

\* CustomUserSerializer.get_is_subscribed
get_is_subscribed(u, obj) == is_authenticated(u) /\ <<u, obj>> \in subscription

\* GET /users/{id}/ (open to everybody): the profile with its is_subscribed flag
api_users_retrieve(u, id) ==
  /\ resp' = IF invalid_token(u)
             THEN Response("api_users_retrieve", u, id, 401, "invalid_token")
             ELSE IF id \notin users
             THEN Response("api_users_retrieve", u, id, 404, "not_found")
             ELSE IF get_is_subscribed(u, id)
             THEN Response("api_users_retrieve", u, id, 200, "is_subscribed")
             ELSE Response("api_users_retrieve", u, id, 200, "not_subscribed")
  /\ UNCHANGED <<users, favorite_unique, USE_POSTGRES, recipes, recipe_ingredient, recipe_tags,
                 favorite, shopping_cart, subscription, req, pdf, upd,
                 gen, doc>>

\* POST /users/ ("create": (AllowAny,)): UserRegistrationSerializer is a
\* ModelSerializer, so an email or username that a user already has is a
\* validation error; otherwise serializer.save() inserts one User row.  new
\* is the user the payload describes.
api_users_create(u, new) ==
  /\ IF invalid_token(u)
     THEN /\ resp' = Response("api_users_create", u, new, 401, "invalid_token")
          /\ UNCHANGED users
     ELSE IF new \in users
     THEN /\ resp' = Response("api_users_create", u, new, 400, "unique")
          /\ UNCHANGED users
     ELSE /\ users' = users \cup {new}
          /\ resp' = Response("api_users_create", u, new, 201, "created")
  /\ UNCHANGED <<favorite_unique, USE_POSTGRES, recipes, recipe_ingredient, recipe_tags, favorite,
                 shopping_cart, subscription, req, pdf, upd, gen, doc>>

\* DELETE /users/{id}/subscribe/: the permission of the action
\* (IsAuthenticated) is checked first; the action is declared
\* methods=['post'], so the router maps no handler to DELETE and the view
\* answers 405
api_subscribe_delete(u, id) ==
  /\ resp' = IF ~is_authenticated(u)
             THEN Response("api_subscribe_delete", u, id, 401, "not_authenticated")
             ELSE Response("api_subscribe_delete", u, id, 405, "method_not_allowed")
  /\ UNCHANGED <<users, favorite_unique, USE_POSTGRES, recipes, recipe_ingredient, recipe_tags,
                 favorite, shopping_cart, subscription, req, pdf, upd,
                 gen, doc>>

(***************************************************************************)
(* Two add-to-favorites requests served concurrently (one worker each; no  *)
(* transaction spans a request).  Request i runs RecipeViewSet.favorite    *)
(* for a POST by an authenticated user on an existing recipe; its two      *)
(* database statements are separate steps: the SELECT of                   *)
(* FavoriteSerializer.validate and the INSERT of FavoriteSerializer.create.*)
(* The request that inserted its row ends in AttributeError when the view  *)
(* serializes the recipe for the body of its response.                     *)
(***************************************************************************)
Requests == {1, 2}

FavoriteSerializer_validate(i, u, r) ==
  /\ req[i].pc = "idle"
  /\ req' = [req EXCEPT ![i] =
               IF RowExists(favorite, u, r)
               THEN [pc |-> "done", user |-> u, recipe |-> r,
                     status |-> 400, detail |-> "already_in_favorites"]
               ELSE [pc |-> "validated", user |-> u, recipe |-> r,
                     status |-> 0, detail |-> "none"]]
  /\ UNCHANGED <<users, favorite_unique, USE_POSTGRES, recipes, recipe_ingredient, recipe_tags, favorite,
                 shopping_cart, subscription, resp, pdf, upd,
                 gen, doc>>

FavoriteSerializer_create(i) ==
  /\ req[i].pc = "validated"
  /\ IF favorite_unique /\ RowExists(favorite, req[i].user, req[i].recipe)
     THEN /\ req' = [req EXCEPT ![i].pc = "done", ![i].status = 500,
                                ![i].detail = "IntegrityError"]
          /\ UNCHANGED favorite
     ELSE /\ favorite' = CreateRow(favorite, req[i].user, req[i].recipe)
          /\ req' = [req EXCEPT ![i].pc = "done", ![i].status = 500,
                                ![i].detail = "AttributeError"]
  /\ UNCHANGED <<users, favorite_unique, USE_POSTGRES, recipes, recipe_ingredient, recipe_tags,
                 shopping_cart, subscription, resp, pdf, upd,
                 gen, doc>>

(***************************************************************************)
(* backend/api/serializers.py: RecipeSerializer                            *)
(***************************************************************************)
\* the loop of validate_ingredients without the test for a repeated id
RECURSIVE validate_ingredients_no_repeat_check(_, _)
validate_ingredients_no_repeat_check(value, unique_ingredients) ==
  IF value = <<>>
  THEN "ok"
  ELSE LET ingredient == Head(value)
       IN  IF ingredient.id \notin IngredientIds THEN "ingredient_does_not_exist"
           ELSE IF ingredient.amount_is \in {"text", "missing"} THEN "amount_not_a_number"
           ELSE IF ingredient.amount_is = "number" /\ ingredient.amount < 1
           THEN "amount_below_1"
           ELSE validate_ingredients_no_repeat_check(Tail(value),
                                                     unique_ingredients \cup {ingredient.id})

\* the loop of validate_ingredients without the lookup of the ingredient
RECURSIVE validate_ingredients_no_exists_check(_, _)
validate_ingredients_no_exists_check(value, unique_ingredients) ==
  IF value = <<>>
  THEN "ok"
  ELSE LET ingredient == Head(value)
       IN  IF ingredient.id \in unique_ingredients THEN "ingredients_repeat"
           ELSE IF ingredient.amount_is \in {"text", "missing"} THEN "amount_not_a_number"
           ELSE IF ingredient.amount_is = "number" /\ ingredient.amount < 1
           THEN "amount_below_1"
           ELSE validate_ingredients_no_exists_check(Tail(value),
                                                     unique_ingredients \cup {ingredient.id})

\* the loop of validate_ingredients without the test amount < 1
RECURSIVE validate_ingredients_no_amount_check(_, _)
validate_ingredients_no_amount_check(value, unique_ingredients) ==
  IF value = <<>>
  THEN "ok"
  ELSE LET ingredient == Head(value)
       IN  IF ingredient.id \in unique_ingredients THEN "ingredients_repeat"
           ELSE IF ingredient.id \notin IngredientIds THEN "ingredient_does_not_exist"
           ELSE IF ingredient.amount_is \in {"text", "missing"} THEN "amount_not_a_number"
           ELSE validate_ingredients_no_amount_check(Tail(value),
                                                     unique_ingredients \cup {ingredient.id})

\* the loop of validate_ingredients testing the amount of an entry before its
\* id
RECURSIVE validate_ingredients_amount_first(_, _)
validate_ingredients_amount_first(value, unique_ingredients) ==
  IF value = <<>>
  THEN "ok"
  ELSE LET ingredient == Head(value)
       IN  IF ingredient.amount_is \in {"text", "missing"} THEN "amount_not_a_number"
           ELSE IF ingredient.amount_is = "number" /\ ingredient.amount < 1
           THEN "amount_below_1"
           ELSE IF ingredient.id \in unique_ingredients THEN "ingredients_repeat"
           ELSE IF ingredient.id \notin IngredientIds THEN "ingredient_does_not_exist"
           ELSE validate_ingredients_amount_first(Tail(value),
                                                  unique_ingredients \cup {ingredient.id})

\* validate_ingredients: the first error the loop raises, "ok" when none.
\* int(amount) raises TypeError for a missing amount and ValueError for text;
\* a number of any size that is 1 or more passes.
RECURSIVE validate_ingredients_from(_, _)
validate_ingredients_from(value, unique_ingredients) ==
  IF value = <<>>
  THEN "ok"
  ELSE LET ingredient == Head(value)
       IN  IF ingredient.id \in unique_ingredients THEN "ingredients_repeat"
           ELSE IF ingredient.id \notin IngredientIds THEN "ingredient_does_not_exist"
           ELSE IF ingredient.amount_is \in {"text", "missing"} THEN "amount_not_a_number"
           ELSE IF ingredient.amount_is = "number" /\ ingredient.amount < 1
           THEN "amount_below_1"
           ELSE validate_ingredients_from(Tail(value),
                                          unique_ingredients \cup {ingredient.id})

\* validate_ingredients without the test for an empty list
validate_ingredients_no_empty_check(value) == validate_ingredients_from(value, {})

validate_ingredients(value) ==
  IF value = <<>> THEN "ingredients_empty" ELSE validate_ingredients_from(value, {})

\* validate_tags without the comparison of len(set(value)) with len(value)
validate_tags_no_repeat_check(value) ==
  IF value = <<>> THEN "tags_empty"
  ELSE IF \E k \in 1..Len(value) : value[k] \notin TagIds THEN "tag_does_not_exist"
  ELSE "ok"

validate_tags(value) ==
  IF value = <<>> THEN "tags_empty"
  ELSE IF Cardinality({value[k] : k \in 1..Len(value)}) # Len(value) THEN "tags_repeat"
  ELSE IF \E k \in 1..Len(value) : value[k] \notin TagIds THEN "tag_does_not_exist"
  ELSE "ok"

validate_cooking_time(value) == IF value < 1 THEN "cooking_time_below_1" ELSE "ok"

\* serializer.is_valid(): every declared field of the payload is validated
\* and the errors are collected per field; a field the payload lacks is an
\* error unless the update is partial.  data.fields names the fields the
\* payload carries.  name, text and image are taken as present and valid.
FieldError(data, partial, field, result) ==
  IF field \in data.fields
  THEN (IF result = "ok" THEN {} ELSE {<<field, result>>})
  ELSE (IF partial THEN {} ELSE {<<field, "required">>})

is_valid_errors(data, partial) ==
  FieldError(data, partial, "ingredients", validate_ingredients(data.ingredients))
  \cup FieldError(data, partial, "tags", validate_tags(data.tags))
  \cup FieldError(data, partial, "cooking_time", validate_cooking_time(data.cooking_time))

\* RecipeIngredient.objects.create(recipe, ingredient_id, amount) on a recipe
\* that holds rows: the exception the INSERT raises, "none" when the row is
\* stored.  An amount above 2^63 - 1 is refused before the constraints are
\* tested (the field's validators run in full_clean only, which create does
\* not call): PostgreSQL answers integer out of range, which Django raises as
\* DataError, and the SQLite driver raises OverflowError when it binds the
\* value.  The constraint unique_recipe_ingredient refuses a second row for
\* one (recipe, ingredient).
create_raises(rows, ingredient) ==
  IF ingredient.amount_is = "beyond_column"
  THEN IF USE_POSTGRES THEN "DataError" ELSE "OverflowError"
  ELSE IF \E k \in 1..Len(rows) : rows[k].ingredient = ingredient.id THEN "IntegrityError"
  ELSE "none"

\* the row a successful create stores
RecipeIngredient_row(ingredient) ==
  [ingredient |-> ingredient.id, amount |-> ingredient.amount]

\* _save_ingredients on a recipe that holds rows: one create per entry, in
\* payload order, up to the first create that raises.  saved are the rows the
\* recipe holds when the loop ends (each create commits on its own), raised is
\* the exception that ended it, "none" when every entry was stored.
RECURSIVE _save_ingredients(_, _)
_save_ingredients(rows, ingredients_data) ==
  IF ingredients_data = <<>>
  THEN [saved |-> rows, raised |-> "none"]
  ELSE IF create_raises(rows, Head(ingredients_data)) # "none"
  THEN [saved |-> rows, raised |-> create_raises(rows, Head(ingredients_data))]
  ELSE _save_ingredients(Append(rows, RecipeIngredient_row(Head(ingredients_data))),
                         Tail(ingredients_data))

\* recipe.tags.set(tags_data)
tags_set(pk, tags_data) ==
  {p \in recipe_tags : p[1] # pk} \cup {<<pk, tags_data[k]>> : k \in 1..Len(tags_data)}

\* RecipeSerializer.update on validated data: raises when ingredients or tags
\* were not sent, before anything is written
update_errors(data) ==
  IF "ingredients" \notin data.fields THEN {<<"ingredients", "required_for_update">>}
  ELSE IF "tags" \notin data.fields THEN {<<"tags", "required_for_update">>}
  ELSE {}

(***************************************************************************)
(* backend/api/views.py: RecipeViewSet.update / destroy                    *)
(***************************************************************************)
\* what no recipe request touches
UnchangedByRecipeRequests == UNCHANGED <<users, favorite_unique, USE_POSTGRES, subscription, req, pdf, upd,
                 gen, doc>>

RecipeTablesUnchanged ==
  UNCHANGED <<recipes, recipe_ingredient, recipe_tags, favorite, shopping_cart>>

\* perform_destroy deleting the Recipe row only, as if its foreign keys had
\* no on_delete=CASCADE
perform_destroy_no_cascade(pk) ==
  /\ recipes' = [r \in DOMAIN recipes \ {pk} |-> recipes[r]]
  /\ UNCHANGED <<recipe_ingredient, recipe_tags, favorite, shopping_cart>>

\* instance.delete(): the recipe row and, by on_delete=CASCADE, its
\* RecipeIngredient rows, tag links, Favorite rows and ShoppingCart rows
perform_destroy(pk) ==
  /\ recipes' = [r \in DOMAIN recipes \ {pk} |-> recipes[r]]
  /\ recipe_ingredient' = [recipe_ingredient EXCEPT ![pk] = <<>>]
  /\ recipe_tags' = {p \in recipe_tags : p[1] # pk}
  /\ favorite' = [p \in Pairs |-> IF p[2] = pk THEN 0 ELSE favorite[p]]
  /\ shopping_cart' = [p \in Pairs |-> IF p[2] = pk THEN 0 ELSE shopping_cart[p]]

\* a response to a request that carried the payload data
RecipeResponse(op, u, pk, status, detail, data) ==
  [Response(op, u, pk, status, detail) EXCEPT !.data = data]

\* lines 208-210 of RecipeSerializer.update: a non-empty ingredients list
\* has the old rows deleted and _save_ingredients run on the emptied recipe;
\* an empty one leaves the rows alone
update_ingredients(pk, data) ==
  IF data.ingredients # <<>>
  THEN _save_ingredients(<<>>, data.ingredients)
  ELSE [saved |-> recipe_ingredient[pk], raised |-> "none"]

\* the exception that ends RecipeSerializer.update on validated data: the
\* one a create raised, else the AttributeError of line 216, which reads
\* instance.description while the Recipe model has a field text and no
\* attribute description
update_raises(pk, data) ==
  IF update_ingredients(pk, data).raised # "none"
  THEN update_ingredients(pk, data).raised
  ELSE "AttributeError"

\* serializer.save() through RecipeSerializer.update.  The old rows are
\* deleted and the new rows are created one by one; when a create raises,
\* the request ends there, with the rows created so far and the old tag
\* links.  Otherwise a non-empty tags list replaces the tag links, and then
\* line 216 raises before cooking_time is assigned and before
\* instance.save().  No transaction encloses the writes, so they stay.
perform_update(pk, data) ==
  /\ recipe_ingredient' = [recipe_ingredient EXCEPT
                             ![pk] = update_ingredients(pk, data).saved]
  /\ recipe_tags' = IF update_ingredients(pk, data).raised = "none" /\ data.tags # <<>>
                    THEN tags_set(pk, data.tags)
                    ELSE recipe_tags
  /\ UNCHANGED <<recipes, favorite, shopping_cart>>

\* the part of RecipeViewSet.update after the author comparison
update_by_author(u, pk, data, partial) ==
  IF is_valid_errors(data, partial) # {}
  THEN /\ resp' = [RecipeResponse("api_update", u, pk, 400, "validation_error", data)
                     EXCEPT !.errors = is_valid_errors(data, partial)]
       /\ RecipeTablesUnchanged
  ELSE IF update_errors(data) # {}
  THEN /\ resp' = [RecipeResponse("api_update", u, pk, 400, "validation_error", data)
                     EXCEPT !.errors = update_errors(data)]
       /\ RecipeTablesUnchanged
  ELSE /\ perform_update(pk, data)
       /\ resp' = RecipeResponse("api_update", u, pk, 500, update_raises(pk, data), data)

\* the handler with the author comparison left out
api_update_no_author_check(u, pk, data, partial) ==
  /\ UnchangedByRecipeRequests
  /\ IF ~is_authenticated(u)
     THEN /\ resp' = RecipeResponse("api_update", u, pk, 401, "not_authenticated", data)
          /\ RecipeTablesUnchanged
     ELSE IF ~RecipeExists(pk)
     THEN /\ resp' = RecipeResponse("api_update", u, pk, 404, "not_found", data)
          /\ RecipeTablesUnchanged
     ELSE update_by_author(u, pk, data, partial)

\* PUT and PATCH /recipes/{pk}/ (partial_update calls update with partial=True)
api_update(u, pk, data, partial) ==
  /\ UnchangedByRecipeRequests
  /\ IF ~is_authenticated(u)
     THEN /\ resp' = RecipeResponse("api_update", u, pk, 401, "not_authenticated", data)
          /\ RecipeTablesUnchanged
     ELSE IF ~RecipeExists(pk)
     THEN /\ resp' = RecipeResponse("api_update", u, pk, 404, "not_found", data)
          /\ RecipeTablesUnchanged
     ELSE IF recipes[pk].author # u
     THEN /\ resp' = RecipeResponse("api_update", u, pk, 403, "not_author", data)
          /\ RecipeTablesUnchanged
     ELSE update_by_author(u, pk, data, partial)

\* POST /recipes/: RecipeViewSet.create.  After validation
\* RecipeSerializer.create calls Recipe.objects.create(**validated_data)
\* with the key description (the source of the field text); the Recipe
\* model has no such field, so the call raises TypeError before any row is
\* written.
api_create(u, data) ==
  /\ UnchangedByRecipeRequests
  /\ RecipeTablesUnchanged
  /\ IF ~is_authenticated(u)
     THEN resp' = RecipeResponse("api_create", u, NoSuchId, 401, "not_authenticated", data)
     ELSE IF is_valid_errors(data, FALSE) # {}
     THEN resp' = [RecipeResponse("api_create", u, NoSuchId, 400, "validation_error", data)
                     EXCEPT !.errors = is_valid_errors(data, FALSE)]
     ELSE resp' = RecipeResponse("api_create", u, NoSuchId, 500, "TypeError", data)

\* DELETE /recipes/{pk}/
api_destroy(u, pk) ==
  /\ UnchangedByRecipeRequests
  /\ IF ~is_authenticated(u)
     THEN /\ resp' = Response("api_destroy", u, pk, 401, "not_authenticated")
          /\ RecipeTablesUnchanged
     ELSE IF ~RecipeExists(pk)
     THEN /\ resp' = Response("api_destroy", u, pk, 404, "not_found")
          /\ RecipeTablesUnchanged
     ELSE IF recipes[pk].author # u
     THEN /\ resp' = Response("api_destroy", u, pk, 403, "not_author")
          /\ RecipeTablesUnchanged
     ELSE /\ perform_destroy(pk)
          /\ resp' = Response("api_destroy", u, pk, 204, "no_content")

(***************************************************************************)
(* backend/foodgram/views.py: RecipeViewSet update / destroy               *)
(***************************************************************************)
\* IsAuthorOrReadOnly.has_object_permission for an unsafe method
has_object_permission(u, pk) == recipes[pk].author = u

\* authentication, then get_object(): a token of a user who is gone is
\* refused before anything is looked up; 404 for a missing recipe, then the
\* object permission; a refused request is answered 401 without credentials
\* and 403 with them.  "ok" when the object is handed to the handler.
get_object(u, pk) ==
  IF invalid_token(u) THEN "invalid_token"
  ELSE IF ~RecipeExists(pk) THEN "not_found"
  ELSE IF has_object_permission(u, pk) THEN "ok"
  ELSE IF is_authenticated(u) THEN "permission_denied"
  ELSE "not_authenticated"

get_object_response(op, u, pk) ==
  CASE get_object(u, pk) = "invalid_token" -> Response(op, u, pk, 401, "invalid_token")
    [] get_object(u, pk) = "not_found" -> Response(op, u, pk, 404, "not_found")
    [] get_object(u, pk) = "permission_denied" -> Response(op, u, pk, 403, "permission_denied")
    [] get_object(u, pk) = "not_authenticated" -> Response(op, u, pk, 401, "not_authenticated")

\* PUT and PATCH /recipes/{pk}/: RecipeSerializer names the field
\* 'description', which the Recipe model does not have, so building the
\* serializer's fields raises ImproperlyConfigured for the author
foodgram_update(u, pk) ==
  /\ UnchangedByRecipeRequests
  /\ RecipeTablesUnchanged
  /\ IF get_object(u, pk) # "ok"
     THEN resp' = get_object_response("foodgram_update", u, pk)
     ELSE resp' = Response("foodgram_update", u, pk, 500, "ImproperlyConfigured")

\* POST /recipes/: 'create' asks IsAuthenticated; the serializer is the same
\* misconfigured RecipeSerializer
foodgram_create(u, data) ==
  /\ UnchangedByRecipeRequests
  /\ RecipeTablesUnchanged
  /\ IF ~is_authenticated(u)
     THEN resp' = RecipeResponse("foodgram_create", u, NoSuchId, 401, "not_authenticated", data)
     ELSE resp' = RecipeResponse("foodgram_create", u, NoSuchId, 500, "ImproperlyConfigured", data)

\* DELETE /recipes/{pk}/
foodgram_destroy(u, pk) ==
  /\ UnchangedByRecipeRequests
  /\ IF get_object(u, pk) # "ok"
     THEN /\ resp' = get_object_response("foodgram_destroy", u, pk)
          /\ RecipeTablesUnchanged
     ELSE /\ perform_destroy(pk)
          /\ resp' = Response("foodgram_destroy", u, pk, 204, "no_content")

(***************************************************************************)
(* backend/foodgram/views.py: CustomUserViewSet                            *)
(***************************************************************************)
\* the recipes of an author
recipes_of(author) == {r \in DOMAIN recipes : recipes[r].author = author}

\* instance.delete() of a user: the user row and, by on_delete=CASCADE, the
\* user's recipes with everything that hangs on them, the user's Favorite
\* and ShoppingCart rows, and the Subscription rows on either side
User_delete(pk) ==
  /\ users' = users \ {pk}
  /\ recipes' = [r \in DOMAIN recipes \ recipes_of(pk) |-> recipes[r]]
  /\ recipe_ingredient' = [r \in RecipeIds |->
                             IF r \in recipes_of(pk) THEN <<>> ELSE recipe_ingredient[r]]
  /\ recipe_tags' = {p \in recipe_tags : p[1] \notin recipes_of(pk)}
  /\ favorite' = [p \in Pairs |->
                    IF p[1] = pk \/ p[2] \in recipes_of(pk) THEN 0 ELSE favorite[p]]
  /\ shopping_cart' = [p \in Pairs |->
                         IF p[1] = pk \/ p[2] \in recipes_of(pk) THEN 0 ELSE shopping_cart[p]]
  /\ subscription' = {p \in subscription : p[1] # pk /\ p[2] # pk}

\* POST /api/users/ ('create': [AllowAny]): UserSerializer is a
\* ModelSerializer, so an email or username that a user already has is a
\* validation error; otherwise one User row is inserted.  new is the user
\* the payload describes; the rest of the payload is taken as well-formed.
foodgram_users_create(u, new) ==
  /\ IF invalid_token(u)
     THEN /\ resp' = Response("foodgram_users_create", u, new, 401, "invalid_token")
          /\ UNCHANGED users
     ELSE IF new \in users
     THEN /\ resp' = Response("foodgram_users_create", u, new, 400, "unique")
          /\ UNCHANGED users
     ELSE /\ users' = users \cup {new}
          /\ resp' = Response("foodgram_users_create", u, new, 201, "created")
  /\ UNCHANGED <<favorite_unique, USE_POSTGRES, recipes, recipe_ingredient, recipe_tags, favorite,
                 shopping_cart, subscription, req, pdf, upd, gen, doc>>

\* DELETE /api/users/{pk}/: the viewset is a ModelViewSet; 'destroy' is not a
\* key of permission_classes_by_action, so get_permissions falls back on
\* permission_classes, the project default AllowAny.  Any caller, signed in
\* or not, deletes any user.
foodgram_users_destroy(u, pk) ==
  /\ IF invalid_token(u)
     THEN /\ resp' = Response("foodgram_users_destroy", u, pk, 401, "invalid_token")
          /\ UNCHANGED <<users, recipes, recipe_ingredient, recipe_tags, favorite,
                         shopping_cart, subscription>>
     ELSE IF pk \notin users
     THEN /\ resp' = Response("foodgram_users_destroy", u, pk, 404, "not_found")
          /\ UNCHANGED <<users, recipes, recipe_ingredient, recipe_tags, favorite,
                         shopping_cart, subscription>>
     ELSE /\ User_delete(pk)
          /\ resp' = Response("foodgram_users_destroy", u, pk, 204, "no_content")
  /\ UNCHANGED <<favorite_unique, USE_POSTGRES, req, pdf, upd, gen, doc>>

(***************************************************************************)
(* RecipeViewSet.update of backend/api/views.py served while other         *)
(* requests, a second update among them, are served (one worker each).     *)
(* Nothing in the repository opens                                         *)
(* a transaction (no transaction.atomic, no ATOMIC_REQUESTS), so every     *)
(* statement of RecipeSerializer.update commits on its own and is a step   *)
(* here: the delete of the old rows, each RecipeIngredient.objects.create  *)
(* of _save_ingredients, tags.set, and the read of instance.description    *)
(* that ends the request.                                                  *)
(***************************************************************************)
\* the request passes the checks of the view and is_valid()
update_accepted(u, pk, data, partial) ==
  /\ is_authenticated(u)
  /\ RecipeExists(pk)
  /\ recipes[pk].author = u
  /\ is_valid_errors(data, partial) = {}
  /\ update_errors(data) = {}

\* request i arrives: it is refused as api_update refuses it, or
\* instance.recipe_ingredients.all().delete() removes the rows the recipe
\* holds (of a non-empty ingredients list)
RecipeSerializer_update_delete(i, u, pk, data, partial) ==
  /\ upd[i].pc = "idle"
  /\ IF ~update_accepted(u, pk, data, partial)
     THEN api_update(u, pk, data, partial)
     ELSE /\ recipe_ingredient' = [recipe_ingredient EXCEPT
                                     ![pk] = IF data.ingredients # <<>> THEN <<>> ELSE @]
          /\ upd' = [upd EXCEPT ![i] = [pc |-> "_save_ingredients", user |-> u,
                                        recipe |-> pk, data |-> data, next |-> 1,
                                        old_rows |-> recipe_ingredient[pk]]]
          /\ UNCHANGED <<users, favorite_unique, USE_POSTGRES, recipes, recipe_tags, favorite,
                         shopping_cart, subscription, resp, req, pdf,
                 gen, doc>>

\* one pass of the loop of _save_ingredients of request i:
\* RecipeIngredient.objects.create stores the row, or raises and ends the
\* request with the rows the recipe holds
RecipeSerializer_save_ingredient(i) ==
  /\ upd[i].pc = "_save_ingredients"
  /\ upd[i].next <= Len(upd[i].data.ingredients)
  /\ IF create_raises(recipe_ingredient[upd[i].recipe],
                      upd[i].data.ingredients[upd[i].next]) = "none"
     THEN /\ recipe_ingredient' =
               [recipe_ingredient EXCEPT
                  ![upd[i].recipe] =
                     Append(@, RecipeIngredient_row(upd[i].data.ingredients[upd[i].next]))]
          /\ upd' = [upd EXCEPT ![i].next = @ + 1]
          /\ UNCHANGED resp
     ELSE /\ resp' = RecipeResponse("api_update", upd[i].user, upd[i].recipe, 500,
                                    create_raises(recipe_ingredient[upd[i].recipe],
                                                  upd[i].data.ingredients[upd[i].next]),
                                    upd[i].data)
          /\ upd' = [upd EXCEPT ![i] = NoUpdate]
          /\ UNCHANGED recipe_ingredient
  /\ UNCHANGED <<users, favorite_unique, USE_POSTGRES, recipes, recipe_tags, favorite,
                 shopping_cart, subscription, req, pdf,
                 gen, doc>>

\* the loop of request i is over: instance.tags.set(tags_data)
RecipeSerializer_tags_set(i) ==
  /\ upd[i].pc = "_save_ingredients"
  /\ upd[i].next > Len(upd[i].data.ingredients)
  /\ recipe_tags' = IF upd[i].data.tags # <<>>
                    THEN tags_set(upd[i].recipe, upd[i].data.tags)
                    ELSE recipe_tags
  /\ upd' = [upd EXCEPT ![i].pc = "tags.set"]
  /\ UNCHANGED <<users, favorite_unique, USE_POSTGRES, recipes, recipe_ingredient, favorite,
                 shopping_cart, subscription, resp, req, pdf,
                 gen, doc>>

\* line 216 reads instance.description: AttributeError, answered 500
RecipeSerializer_update_raise(i) ==
  /\ upd[i].pc = "tags.set"
  /\ resp' = RecipeResponse("api_update", upd[i].user, upd[i].recipe, 500, "AttributeError",
                            upd[i].data)
  /\ upd' = [upd EXCEPT ![i] = NoUpdate]
  /\ UNCHANGED <<users, favorite_unique, USE_POSTGRES, recipes, recipe_ingredient, recipe_tags,
                 favorite, shopping_cart, subscription, req, pdf,
                 gen, doc>>

(***************************************************************************)
(* backend/foodgram/models.py: Recipe.save / generate_short_link, and      *)
(* backend/api/views.py: RecipeViewSet.get_link                            *)
(***************************************************************************)
\* Recipe.objects.filter(short_link_hash=short_link).exists()
short_link_exists(short_link) ==
  \E r \in DOMAIN recipes : recipes[r].short_link_hash = short_link

\* the primary key the database gives the next Recipe row
next_recipe_id ==
  IF DOMAIN recipes = {}
  THEN 1
  ELSE (CHOOSE r \in DOMAIN recipes : \A x \in DOMAIN recipes : x <= r) + 1

\* super().save(): the INSERT of a new Recipe row
Recipe_insert(author, short_link_hash) ==
  [r \in DOMAIN recipes \cup {next_recipe_id} |->
     IF r \in DOMAIN recipes
     THEN recipes[r]
     ELSE [author |-> author, cooking_time |-> 1, short_link_hash |-> short_link_hash]]

\* save() of a new recipe (as the admin's add form or any caller of the model
\* makes it): a short_link_hash that was supplied is stored as it is, and
\* generate_short_link is entered when none was
Recipe_save(author, short_link_hash) ==
  /\ gen.pc = "idle"
  /\ Cardinality(DOMAIN recipes) < MaxSaved
  /\ IF short_link_hash # ""
     THEN /\ recipes' = Recipe_insert(author, short_link_hash)
          /\ UNCHANGED gen
     ELSE /\ gen' = [pc |-> "get_random_string", author |-> author, short_link |-> ""]
          /\ UNCHANGED recipes
  /\ UNCHANGED <<users, favorite_unique, USE_POSTGRES, recipe_ingredient, recipe_tags, favorite, shopping_cart,
                 subscription, resp, req, pdf, upd, doc>>

\* short_link = get_random_string(SHORT_LINK_LENGTH): any string of the space
get_random_string(short_link) ==
  /\ gen.pc = "get_random_string"
  /\ gen' = [gen EXCEPT !.pc = "exists", !.short_link = short_link]
  /\ UNCHANGED <<users, favorite_unique, USE_POSTGRES, recipes, recipe_ingredient, recipe_tags, favorite,
                 shopping_cart, subscription, resp, req, pdf, upd, doc>>

\* generate_short_link with the test of the stored hashes left out
generate_short_link_no_exists_check ==
  /\ gen.pc = "exists"
  /\ recipes' = Recipe_insert(gen.author, gen.short_link)
  /\ gen' = NoSave
  /\ UNCHANGED <<users, favorite_unique, USE_POSTGRES, recipe_ingredient, recipe_tags, favorite, shopping_cart,
                 subscription, resp, req, pdf, upd, doc>>

\* the test of the loop of generate_short_link: a stored value sends the
\* loop back to the draw; any other is returned, assigned and saved
generate_short_link ==
  /\ gen.pc = "exists"
  /\ IF short_link_exists(gen.short_link)
     THEN /\ gen' = [gen EXCEPT !.pc = "get_random_string"]
          /\ UNCHANGED recipes
     ELSE /\ recipes' = Recipe_insert(gen.author, gen.short_link)
          /\ gen' = NoSave
  /\ UNCHANGED <<users, favorite_unique, USE_POSTGRES, recipe_ingredient, recipe_tags, favorite, shopping_cart,
                 subscription, resp, req, pdf, upd, doc>>

\* GET /recipes/{pk}/get-link/ (open to everybody): the link ends in the
\* first six hex digits of the MD5 of the recipe's id; the hash of the link
\* is the response's detail
api_get_link(u, pk) ==
  /\ resp' = IF invalid_token(u)
             THEN Response("api_get_link", u, pk, 401, "invalid_token")
             ELSE IF ~RecipeExists(pk)
             THEN Response("api_get_link", u, pk, 404, "not_found")
             ELSE Response("api_get_link", u, pk, 200, md5_6(pk))
  /\ UNCHANGED <<users, favorite_unique, USE_POSTGRES, recipes, recipe_ingredient, recipe_tags, favorite,
                 shopping_cart, subscription, req, pdf, upd, gen, doc>>

(***************************************************************************)
(* Specifications.                                                         *)
(***************************************************************************)
PkInputs == RecipeIds \cup {NoSuchId}

\* the favorite endpoints, requests served one at a time
NextFavorite ==
  \E u \in Actors, pk \in PkInputs :
    \/ api_favorite(u, pk, "post")
    \/ api_favorite(u, pk, "delete")
    \/ foodgram_favorite(u, pk)
    \/ foodgram_unfavorite(u, pk)
    \/ foodgram_FavoriteViewSet_create(u)
    \/ \E owner \in Users : foodgram_FavoriteViewSet_destroy(u, owner, pk)

SpecFavorite == InitSchemaEither /\ [][NextFavorite]_vars

\* the shopping-cart endpoints, requests served one at a time
NextCart ==
  \E u \in Actors, pk \in PkInputs :
    \/ api_shopping_cart(u, pk, "post")
    \/ api_shopping_cart(u, pk, "delete")
    \/ foodgram_add_to_cart(u, pk)
    \/ foodgram_remove_from_cart(u, pk)
    \/ foodgram_ShoppingCartViewSet_create(u)
    \/ \E owner \in Users : foodgram_ShoppingCartViewSet_destroy(u, owner, pk)
    \/ download_shopping_list(u)
    \/ \E id \in UserIds : foodgram_users_destroy(u, id)
    \/ \E new \in Users : foodgram_users_create(u, new)

SpecCart == InitSchemaModels /\ [][NextCart]_vars

\* the subscription endpoints, requests served one at a time
NextSubscription ==
  \E u \in Actors, id \in UserIds :
    \/ \E recipes_limit \in RecipesLimits : api_subscribe(u, id, recipes_limit)
    \/ api_subscribe_delete(u, id)
    \/ api_users_retrieve(u, id)
    \/ \E recipes_limit \in RecipesLimits : api_subscriptions(u, recipes_limit)
    \/ foodgram_users_destroy(u, id)
    \/ id \in Users /\ api_users_create(u, id)

SpecSubscription == InitSchemaModels /\ [][NextSubscription]_vars

\* the recipe payloads tried: well-formed ones, each fault a validator names
\* alone and combined with another, and payloads that leave fields out
WellFormed ==
  [fields |-> {"ingredients", "tags", "cooking_time"},
   ingredients |-> <<Item(2, 1), Item(1, MaxAmount)>>,
   tags |-> <<2>>,
   cooking_time |-> 2]

IngredientsInputs ==
  { <<>>,
    <<Item(1, 1), Item(1, 2)>>,
    <<Item(NoSuchId, 1)>>,
    <<Item(1, 0)>>,
    <<[Item(1, 0) EXCEPT !.amount_is = "text"]>>,
    <<[Item(1, 0) EXCEPT !.amount_is = "missing"]>>,
    <<Item(1, 0), Item(1, 1)>>,
    <<Item(1, 1), Item(1, 1), Item(NoSuchId, 1)>>,
    <<Item(NoSuchId, 0)>> }

TagsInputs == { <<>>, <<1, 1>>, <<NoSuchId>>, <<NoSuchId, NoSuchId>> }

RecipeInputs ==
  { WellFormed,
    [WellFormed EXCEPT !.ingredients = <<Item(3, 1)>>, !.tags = <<1, 2>>] }
  \cup {[WellFormed EXCEPT !.ingredients = i] : i \in IngredientsInputs}
  \cup {[WellFormed EXCEPT !.tags = t] : t \in TagsInputs}
  \cup { [WellFormed EXCEPT !.cooking_time = 0],
         [WellFormed EXCEPT !.ingredients = <<>>, !.tags = <<>>, !.cooking_time = 0],
         [WellFormed EXCEPT !.fields = {"tags", "cooking_time"}, !.ingredients = <<>>],
         [WellFormed EXCEPT !.fields = {"ingredients", "cooking_time"}, !.tags = <<>>],
         [WellFormed EXCEPT !.fields = {"ingredients", "tags"}, !.cooking_time = 0] }

\* the recipe endpoints that write, requests served one at a time
\* PUT carries every payload; PATCH the well-formed one and those that leave
\* a field out
UpdateInputs ==
  {<<data, FALSE>> : data \in RecipeInputs}
  \cup {<<data, TRUE>> : data \in {d \in RecipeInputs : d = WellFormed \/ d.fields # WellFormed.fields}}

NextRecipe ==
  \/ \E u \in Actors, pk \in PkInputs :
       \/ \E x \in UpdateInputs : api_update(u, pk, x[1], x[2])
       \/ api_destroy(u, pk)
       \/ foodgram_update(u, pk)
       \/ foodgram_destroy(u, pk)
  \/ \E u \in Actors, data \in RecipeInputs :
       \/ api_create(u, data)
       \/ foodgram_create(u, data)

SpecRecipe == InitSchemaModels /\ [][NextRecipe]_vars

\* payloads whose ingredients pass is_valid(): the two well-formed ones, one
\* whose only amount the integer column cannot store, and one whose second
\* amount it cannot store
StoredInputs ==
  { WellFormed,
    [WellFormed EXCEPT !.ingredients = <<Item(3, 1)>>, !.tags = <<1, 2>>],
    [WellFormed EXCEPT !.ingredients = <<BeyondColumn(1)>>],
    [WellFormed EXCEPT !.ingredients = <<Item(2, 1), BeyondColumn(1)>>] }

\* create, update and delete through the api routes, requests served one at
\* a time, with those payloads and with the ones is_valid() refuses for an
\* empty list
NextStored ==
  \/ \E u \in Actors, pk \in PkInputs :
       \/ \E data \in StoredInputs \cup {[WellFormed EXCEPT !.ingredients = <<>>],
                                         [WellFormed EXCEPT !.tags = <<>>]} :
            api_update(u, pk, data, FALSE)
       \/ api_destroy(u, pk)
  \/ \E u \in Actors, data \in StoredInputs : api_create(u, data)

SpecStored == InitDatabaseEither /\ [][NextStored]_vars

\* the payloads of the requests made while users are deleted and registered:
\* the two well-formed ones and one is_valid() refuses
AuthorInputs ==
  { WellFormed,
    [WellFormed EXCEPT !.ingredients = <<Item(3, 1)>>, !.tags = <<1, 2>>],
    [WellFormed EXCEPT !.ingredients = <<>>] }

\* the recipe endpoints that update and delete, and users deleted and
\* registered
NextAuthor ==
  \/ \E u \in Actors, pk \in PkInputs :
       \/ \E data \in AuthorInputs : api_update(u, pk, data, FALSE)
       \/ api_destroy(u, pk)
       \/ foodgram_update(u, pk)
       \/ foodgram_destroy(u, pk)
  \/ \E u \in Actors, id \in UserIds : foodgram_users_destroy(u, id)
  \/ \E u \in Actors, new \in Users : api_users_create(u, new) \/ foodgram_users_create(u, new)

SpecAuthor == InitSchemaModels /\ [][NextAuthor]_vars

\* two concurrent add-to-favorites requests
NextConcurrent ==
  \E i \in Requests :
    \/ \E u \in Users, r \in RecipeIds : FavoriteSerializer_validate(i, u, r)
    \/ FavoriteSerializer_create(i)

SpecConcurrent == InitSchemaEither /\ [][NextConcurrent]_vars

\* the payloads of the updates served statement by statement: a well-formed
\* one and one is_valid() refuses
StepInputs ==
  { WellFormed,
    [WellFormed EXCEPT !.ingredients = <<>>] }

\* the primary keys those updates are sent to: recipe 1 and one no recipe has
StepRecipes == {NoSuchId, 1}

\* the user whose cart is filled and whose shopping list is drawn meanwhile
StepReaders == {"A"}

\* updates of one recipe served statement by statement by two workers, while
\* a user fills their shopping cart and downloads their shopping list.  The
\* worker called 2 is the one that takes a request while the other is
\* serving one.
NextUpdateSteps ==
  \/ \E u \in Actors, pk \in StepRecipes, data \in StepInputs :
       \/ RecipeSerializer_update_delete(1, u, pk, data, FALSE)
       \/ upd[1].pc # "idle" /\ RecipeSerializer_update_delete(2, u, pk, data, FALSE)
  \/ \E u \in StepReaders, pk \in PkInputs :
       \/ api_shopping_cart(u, pk, "post")
       \/ download_shopping_list(u)
  \/ \E i \in Requests :
       \/ RecipeSerializer_save_ingredient(i)
       \/ RecipeSerializer_tags_set(i)
       \/ RecipeSerializer_update_raise(i)

SpecUpdateSteps == InitSchemaModels /\ [][NextUpdateSteps]_vars

\* the lists handed to the renderers: n entries of n different names
DictOf(n) ==
  [k \in 1..n |-> [name |-> "ingredient " \o ToString(k), measurement_unit |-> "g",
                   amount |-> k]]

ValuesOf(n) ==
  [k \in 1..n |-> [ingredient__name |-> "ingredient " \o ToString(k),
                   total_amount |-> k,
                   ingredient__measurement_unit |-> "g"]]

\* the two renderers applied to lists of every length up to MaxEntries
NextRender ==
  \E u \in Users, n \in 0..MaxEntries :
    \/ generate_pdf_call(u, ValuesOf(n))
    \/ download_shopping_list_draw(u, DictOf(n))

SpecRender == InitSchemaModels /\ [][NextRender]_vars

\* an empty Recipe table, filled by Recipe.save()
InitShortLink ==
  /\ users = Users
  /\ favorite_unique = FALSE
  /\ USE_POSTGRES = FALSE
  /\ recipes = [r \in {} |-> NoSave]
  /\ recipe_ingredient = [r \in RecipeIds |-> <<>>]
  /\ recipe_tags = {}
  /\ favorite = EmptyTable
  /\ shopping_cart = EmptyTable
  /\ subscription = {}
  /\ resp = NoResponse
  /\ req = NoRequests
  /\ pdf = <<>>
  /\ upd = NoUpdates
  /\ gen = NoSave
  /\ doc = NoDocument

\* recipes saved one after the other, with and without a hash of their own
NextSave ==
  \/ \E short_link_hash \in Hashes \cup {""} : Recipe_save("A", short_link_hash)
  \/ \E short_link \in Hashes : get_random_string(short_link)
  \/ generate_short_link

\* the same, and the recipes' links asked for
NextShortLink ==
  \/ NextSave
  \/ \E u \in Actors, pk \in 0..MaxSaved : api_get_link(u, pk)

SpecShortLink == InitShortLink /\ [][NextShortLink]_vars

\* saves under fair random draws: a call of save() in progress goes on, and
\* a string that could be drawn again and again is drawn at last
SpecSaveFair ==
  /\ InitShortLink
  /\ [][NextSave]_vars
  /\ WF_vars(generate_short_link)
  /\ \A short_link \in Hashes : SF_vars(get_random_string(short_link))

(***************************************************************************)
(* The error kinds of the specification, read off a response.              *)
(***************************************************************************)
Succeeded(r) == r.status \in {200, 201, 204}

AlreadyExists(r) ==
  r.status = 400 /\ r.detail \in {"already_in_favorites", "already_in_cart", "already_subscribed"}

NotFound(r) ==
  \/ r.status = 404
  \/ r.status = 400 /\ r.detail \in {"not_in_favorites", "not_in_cart"}

SelfReferenceForbidden(r) == r.status = 400 /\ r.detail = "self_subscription"

\* the request was made by a signed-in user on an existing recipe
OnExistingRecipe(r) == r.user \in users /\ r.target \in DOMAIN recipes

(***************************************************************************)
(* Claims about the collection toggles.                                    *)
(***************************************************************************)
\* C1: every add-to-favorites request succeeds and creates the (u, r) row
\* exactly when the pair has no row, and otherwise fails AlreadyExists with
\* the table unchanged; every remove-from-favorites request succeeds and
\* deletes the row exactly when the pair has a row, and otherwise fails
\* NotFound with the table unchanged.
C1_FavoriteStrictToggle ==
  [][/\ (resp'.op \in {"api_favorite_post", "foodgram_favorite"} /\ OnExistingRecipe(resp'))
        => IF ~RowExists(favorite, resp'.user, resp'.target)
           THEN Succeeded(resp') /\ favorite' = CreateRow(favorite, resp'.user, resp'.target)
           ELSE AlreadyExists(resp') /\ favorite' = favorite
     /\ (resp'.op \in {"api_favorite_delete", "foodgram_unfavorite"} /\ OnExistingRecipe(resp'))
        => IF RowExists(favorite, resp'.user, resp'.target)
           THEN Succeeded(resp') /\ favorite' = DeleteRows(favorite, resp'.user, resp'.target)
           ELSE NotFound(resp') /\ favorite' = favorite
    ]_vars

\* C2: add-to-shopping-cart fails AlreadyExists when the (u, r) row exists and
\* otherwise creates exactly that row; remove-from-shopping-cart fails NotFound
\* when the row does not exist and otherwise deletes exactly that one row and
\* returns no content (204); a failing call leaves the table unchanged.
C2_CartStrictToggle ==
  [][/\ (resp'.op \in {"api_shopping_cart_post", "foodgram_add_to_cart"} /\ OnExistingRecipe(resp'))
        => IF RowExists(shopping_cart, resp'.user, resp'.target)
           THEN AlreadyExists(resp') /\ shopping_cart' = shopping_cart
           ELSE Succeeded(resp')
                /\ shopping_cart' = CreateRow(shopping_cart, resp'.user, resp'.target)
     /\ (resp'.op \in {"api_shopping_cart_delete", "foodgram_remove_from_cart"}
         /\ OnExistingRecipe(resp'))
        => IF ~RowExists(shopping_cart, resp'.user, resp'.target)
           THEN NotFound(resp') /\ shopping_cart' = shopping_cart
           ELSE resp'.status = 204
                /\ shopping_cart' = DeleteOneRow(shopping_cart, resp'.user, resp'.target)
    ]_vars

\* C3: in every reachable state each (user, recipe) pair has at most one
\* Favorite row and at most one ShoppingCart row (the Subscription table is a
\* set of pairs here: its unique constraint is part of the insert).
C3_AtMostOneRowPerPair ==
  \A p \in Pairs : favorite[p] <= 1 /\ shopping_cart[p] <= 1

\* C4: when two add-to-favorites requests for one (user, recipe) pair have
\* both finished, exactly one got 201, the other failed AlreadyExists, and the
\* pair has exactly one row.
C4_ExactlyOneConcurrentAddSucceeds ==
  (/\ req[1].pc = "done" /\ req[2].pc = "done"
   /\ req[1].user = req[2].user /\ req[1].recipe = req[2].recipe)
  => /\ \E i \in Requests :
          /\ req[i].status = 201
          /\ AlreadyExists(req[3 - i])
     /\ favorite[<<req[1].user, req[1].recipe>>] = 1

\* C5: a subscribe request whose target is the acting user is answered
\* SelfReferenceForbidden and leaves the table unchanged, and no reachable
\* state holds a row with user = subscribed_to.
C5_SelfSubscriptionForbidden ==
  /\ [](\A u \in Users : <<u, u>> \notin subscription)
  /\ [][(resp'.op = "api_subscribe" /\ resp'.user \in users /\ resp'.target = resp'.user)
        => SelfReferenceForbidden(resp') /\ subscription' = subscription]_vars

\* a self-subscription was attempted while the acting user already follows
\* somebody, and was refused
C5_Witness ==
  /\ resp.op = "api_subscribe"
  /\ resp.user \in users
  /\ resp.target = resp.user
  /\ SelfReferenceForbidden(resp)
  /\ \E t \in Users : <<resp.user, t>> \in subscription

\* C6: subscription is a two-state toggle with a Remove operation: a remove
\* request by a subscriber on a pair that exists deletes exactly that row and
\* returns no content.
C6_RemoveDeletesSubscription ==
  [][(/\ resp'.op = "api_subscribe_delete"
      /\ resp'.user \in users
      /\ resp'.target \in users
      /\ <<resp'.user, resp'.target>> \in subscription)
     => /\ resp'.status = 204
        /\ subscription' = subscription \ {<<resp'.user, resp'.target>>}
    ]_vars

\* C8: no request changes a Favorite, ShoppingCart or Subscription row of a
\* user other than the one who made it.
C8_OnlyOwnerChangesRows ==
  [][\A b \in Users :
       resp'.user # b
       => /\ \A r \in RecipeIds : /\ favorite'[<<b, r>>] = favorite[<<b, r>>]
                                  /\ shopping_cart'[<<b, r>>] = shopping_cart[<<b, r>>]
          /\ {p \in subscription' : p[1] = b} = {p \in subscription : p[1] = b}
    ]_vars

(***************************************************************************)
(* Claims about recipe ownership.                                          *)
(***************************************************************************)
Forbidden(r) == r.status = 403

\* the last request was an update or a delete of an existing recipe by a
\* signed-in user
RecipeMutationRequest(r) ==
  /\ r.op \in {"api_update", "api_destroy", "foodgram_update", "foodgram_destroy"}
  /\ r.user \in users

\* C7: an update or delete of a recipe by a signed-in user who is not its
\* author is answered Forbidden and leaves the recipe row, its
\* RecipeIngredient rows and its tag links as they were; a request by the
\* author is never answered Forbidden.
C7_OnlyAuthorMutatesRecipe ==
  [][(RecipeMutationRequest(resp') /\ resp'.target \in DOMAIN recipes)
     => IF recipes[resp'.target].author # resp'.user
        THEN /\ Forbidden(resp')
             /\ recipes' = recipes
             /\ recipe_ingredient' = recipe_ingredient
             /\ recipe_tags' = recipe_tags
        ELSE ~Forbidden(resp')
    ]_vars

\* a non-author's update of a recipe its author has already rewritten was
\* refused, while the other recipe has been deleted by its own author
C7_Witness ==
  /\ resp.op = "api_update"
  /\ resp.user \in users
  /\ resp.target \in DOMAIN recipes
  /\ recipes[resp.target].author # resp.user
  /\ Forbidden(resp)
  /\ recipe_ingredient[resp.target] # FixtureRows[resp.target]
  /\ DOMAIN recipes # RecipeIds

(***************************************************************************)
(* Claims about recipe validation.                                         *)
(***************************************************************************)
\* the error kinds of the specification, read off the field errors of a
\* response
MissingField(r, field) ==
  r.status = 400
  /\ \E e \in r.errors :
       e[1] = field /\ e[2] \in {"ingredients_empty", "tags_empty", "required",
                                 "required_for_update"}

DuplicateReference(r, field) ==
  r.status = 400
  /\ \E e \in r.errors : e[1] = field /\ e[2] \in {"ingredients_repeat", "tags_repeat"}

UnknownReference(r, field) ==
  r.status = 400
  /\ \E e \in r.errors :
       e[1] = field /\ e[2] \in {"ingredient_does_not_exist", "tag_does_not_exist"}

InvalidField(r, field) ==
  r.status = 400
  /\ \E e \in r.errors :
       e[1] = field /\ e[2] \in {"amount_below_1", "amount_not_a_number",
                                 "cooking_time_below_1"}

\* the step wrote no Recipe row, no RecipeIngredient row and no tag link
NothingPersisted ==
  /\ recipes' = recipes
  /\ recipe_ingredient' = recipe_ingredient
  /\ recipe_tags' = recipe_tags

\* a signed-in user's create request through RecipeSerializer
CreateRequest(r) == r.op = "api_create" /\ r.user \in users

\* the author's update request through RecipeSerializer, on the recipe as
\* it is before the step
UpdateRequest(r) ==
  /\ r.op = "api_update"
  /\ r.user \in users
  /\ r.target \in DOMAIN recipes
  /\ recipes[r.target].author = r.user

Sent(r, field) == field \in r.data.fields

\* C11: a create request whose ingredients list is empty fails with
\* MissingField and writes no Recipe row, no RecipeIngredient row and no tag
\* link.
C11_EmptyIngredientsRejected ==
  [][(CreateRequest(resp') /\ Sent(resp', "ingredients") /\ resp'.data.ingredients = <<>>)
     => MissingField(resp', "ingredients") /\ NothingPersisted
    ]_vars

\* a create request with an empty ingredients list and otherwise valid
\* fields was refused, after some recipe had been rewritten
C11_Witness ==
  /\ CreateRequest(resp)
  /\ resp.data = [WellFormed EXCEPT !.ingredients = <<>>]
  /\ MissingField(resp, "ingredients")
  /\ recipe_ingredient # FixtureRows

\* a create request, or an update request by the recipe's author
WriteRequest(r) == CreateRequest(r) \/ UpdateRequest(r)

\* entry k of the list names an id an earlier entry names
Repeats(l, k) == \E j \in 1..(k - 1) : l[j].id = l[k].id

HasRepeat(l) == \E k \in 1..Len(l) : Repeats(l, k)

\* the entry names an existing ingredient and carries a number >= 1
EntryValid(e) ==
  /\ e.id \in IngredientIds
  /\ e.amount_is \in {"number", "beyond_column"}
  /\ e.amount_is = "number" => e.amount >= 1

\* no recipe holds two RecipeIngredient rows for one ingredient
NoRepeatedRows ==
  \A r \in RecipeIds :
    \A j, k \in 1..Len(recipe_ingredient[r]) :
      recipe_ingredient[r][j].ingredient = recipe_ingredient[r][k].ingredient => j = k

\* C12 as stated: a create or update whose ingredients list names one
\* ingredient id more than once fails with DuplicateReference and writes no
\* RecipeIngredient row, and no recipe ever holds two rows for one ingredient.
C12_RepeatedIngredientIsDuplicateReference ==
  /\ []NoRepeatedRows
  /\ [][(WriteRequest(resp') /\ Sent(resp', "ingredients")
         /\ HasRepeat(resp'.data.ingredients))
        => /\ DuplicateReference(resp', "ingredients")
           /\ recipe_ingredient' = recipe_ingredient
       ]_vars

\* C12 as amended: such a request is always rejected with a field error on
\* ingredients and writes no RecipeIngredient row; the error is
\* DuplicateReference when every entry before the first repeated one names an
\* existing ingredient with an amount >= 1; and no recipe ever holds two rows
\* for one ingredient.
C12_RepeatedIngredientRejected ==
  /\ []NoRepeatedRows
  /\ [][(WriteRequest(resp') /\ Sent(resp', "ingredients")
         /\ HasRepeat(resp'.data.ingredients))
        => /\ resp'.status = 400
           /\ \E e \in resp'.errors : e[1] = "ingredients"
           /\ recipe_ingredient' = recipe_ingredient
           /\ (\A k \in 1..Len(resp'.data.ingredients) :
                 (Repeats(resp'.data.ingredients, k)
                  /\ \A j \in 1..(k - 1) : ~Repeats(resp'.data.ingredients, j))
                 => (\A j \in 1..(k - 1) : EntryValid(resp'.data.ingredients[j])))
              => DuplicateReference(resp', "ingredients")
       ]_vars

\* the author's update with one ingredient named twice, both entries
\* otherwise valid, was refused as a duplicate
C12_Witness ==
  /\ resp.op = "api_update"
  /\ resp.target \in DOMAIN recipes
  /\ recipes[resp.target].author = resp.user
  /\ resp.data.ingredients = <<Item(1, 1), Item(1, 2)>>
  /\ DuplicateReference(resp, "ingredients")
  /\ recipe_ingredient # FixtureRows

\* entry k of the list names an id no Ingredient row has
Unknown(l, k) == l[k].id \notin IngredientIds

HasUnknown(l) == \E k \in 1..Len(l) : Unknown(l, k)

\* every RecipeIngredient row references an existing Ingredient
AllRowsReferenceIngredients ==
  \A r \in RecipeIds :
    \A k \in 1..Len(recipe_ingredient[r]) : recipe_ingredient[r][k].ingredient \in IngredientIds

\* C13 as stated: a create or update that names an ingredient id with no
\* Ingredient row fails with UnknownReference and persists nothing, and every
\* RecipeIngredient row references an existing Ingredient.
C13_UnknownIngredientIsUnknownReference ==
  /\ []AllRowsReferenceIngredients
  /\ [][(WriteRequest(resp') /\ Sent(resp', "ingredients")
         /\ HasUnknown(resp'.data.ingredients))
        => UnknownReference(resp', "ingredients") /\ NothingPersisted
       ]_vars

\* C13 as amended: such a request is always rejected with a field error on
\* ingredients and persists nothing; the error is UnknownReference when no
\* entry before the first unknown one repeats an id or carries an amount that
\* is no number >= 1; and every RecipeIngredient row references an existing
\* Ingredient.
C13_UnknownIngredientRejected ==
  /\ []AllRowsReferenceIngredients
  /\ [][(WriteRequest(resp') /\ Sent(resp', "ingredients")
         /\ HasUnknown(resp'.data.ingredients))
        => /\ resp'.status = 400
           /\ \E e \in resp'.errors : e[1] = "ingredients"
           /\ NothingPersisted
           /\ (\A k \in 1..Len(resp'.data.ingredients) :
                 (Unknown(resp'.data.ingredients, k)
                  /\ \A j \in 1..(k - 1) : ~Unknown(resp'.data.ingredients, j))
                 => (\A j \in 1..(k - 1) :
                       /\ EntryValid(resp'.data.ingredients[j])
                       /\ ~Repeats(resp'.data.ingredients, j)))
              => UnknownReference(resp', "ingredients")
       ]_vars

\* the author's update naming only an ingredient that does not exist was
\* refused as an unknown reference
C13_Witness ==
  /\ resp.op = "api_update"
  /\ resp.target \in DOMAIN recipes
  /\ recipes[resp.target].author = resp.user
  /\ resp.data.ingredients = <<Item(NoSuchId, 1)>>
  /\ UnknownReference(resp, "ingredients")
  /\ recipe_ingredient # FixtureRows

\* entry k of the list carries no amount, text, or a number below 1
BadAmount(l, k) ==
  \/ l[k].amount_is \in {"text", "missing"}
  \/ l[k].amount_is = "number" /\ l[k].amount < 1

HasBadAmount(l) == \E k \in 1..Len(l) : BadAmount(l, k)

\* every stored recipe has cooking_time >= 1 and every stored row amount >= 1
StoredValuesPositive ==
  /\ \A r \in DOMAIN recipes : recipes[r].cooking_time >= 1
  /\ \A r \in RecipeIds :
       \A k \in 1..Len(recipe_ingredient[r]) : recipe_ingredient[r][k].amount >= 1

\* C14 as stated: a create or update is rejected with InvalidField whenever
\* cooking_time < 1 or some submitted amount is missing, no number or < 1,
\* and every stored cooking_time and amount is >= 1.
C14_BadValueIsInvalidField ==
  /\ []StoredValuesPositive
  /\ [][/\ (WriteRequest(resp') /\ Sent(resp', "cooking_time")
            /\ resp'.data.cooking_time < 1)
           => InvalidField(resp', "cooking_time")
        /\ (WriteRequest(resp') /\ Sent(resp', "ingredients")
            /\ HasBadAmount(resp'.data.ingredients))
           => InvalidField(resp', "ingredients")
       ]_vars

\* C14 as amended: a cooking_time < 1 is always rejected with InvalidField; a
\* list with a bad amount is always rejected with a field error on
\* ingredients, which is InvalidField when the first entry with a bad amount
\* names an existing ingredient not named before and every entry before it
\* is valid and repeats no id; a rejected request persists nothing; every
\* stored cooking_time and amount is >= 1.
C14_BadValueRejected ==
  /\ []StoredValuesPositive
  /\ [][/\ (WriteRequest(resp') /\ Sent(resp', "cooking_time")
            /\ resp'.data.cooking_time < 1)
           => InvalidField(resp', "cooking_time") /\ NothingPersisted
        /\ (WriteRequest(resp') /\ Sent(resp', "ingredients")
            /\ HasBadAmount(resp'.data.ingredients))
           => /\ resp'.status = 400
              /\ \E e \in resp'.errors : e[1] = "ingredients"
              /\ NothingPersisted
              /\ (\A k \in 1..Len(resp'.data.ingredients) :
                    (BadAmount(resp'.data.ingredients, k)
                     /\ \A j \in 1..(k - 1) : ~BadAmount(resp'.data.ingredients, j))
                    => /\ ~Unknown(resp'.data.ingredients, k)
                       /\ ~Repeats(resp'.data.ingredients, k)
                       /\ \A j \in 1..(k - 1) :
                            /\ EntryValid(resp'.data.ingredients[j])
                            /\ ~Repeats(resp'.data.ingredients, j))
                 => InvalidField(resp', "ingredients")
       ]_vars

\* the author's update with an amount of zero was refused as an invalid
\* field, and so was one with text for an amount
C14_Witness ==
  /\ resp.op = "api_update"
  /\ resp.target \in DOMAIN recipes
  /\ recipes[resp.target].author = resp.user
  /\ resp.data.ingredients \in {<<Item(1, 0)>>, <<[Item(1, 0) EXCEPT !.amount_is = "text"]>>}
  /\ InvalidField(resp, "ingredients")
  /\ recipe_ingredient # FixtureRows

TagRepeated(l) == \E j, k \in 1..Len(l) : j < k /\ l[j] = l[k]

TagUnknown(l) == \E k \in 1..Len(l) : l[k] \notin TagIds

\* C15 as stated: a create or update is rejected with MissingField when the
\* tags list is empty, DuplicateReference when it repeats a tag id and
\* UnknownReference when it names an id no Tag has, and writes no tag link.
C15_BadTagsKinds ==
  [][(WriteRequest(resp') /\ Sent(resp', "tags"))
     => /\ (resp'.data.tags = <<>>)
           => MissingField(resp', "tags") /\ recipe_tags' = recipe_tags
        /\ TagRepeated(resp'.data.tags)
           => DuplicateReference(resp', "tags") /\ recipe_tags' = recipe_tags
        /\ TagUnknown(resp'.data.tags)
           => UnknownReference(resp', "tags") /\ recipe_tags' = recipe_tags
    ]_vars

\* C15 as amended: the same, except that a list which both repeats an id and
\* names an unknown id is answered DuplicateReference only.
C15_BadTagsRejected ==
  [][(WriteRequest(resp') /\ Sent(resp', "tags"))
     => /\ (resp'.data.tags = <<>>)
           => MissingField(resp', "tags") /\ recipe_tags' = recipe_tags
        /\ TagRepeated(resp'.data.tags)
           => DuplicateReference(resp', "tags") /\ recipe_tags' = recipe_tags
        /\ TagUnknown(resp'.data.tags)
           => /\ resp'.status = 400
              /\ recipe_tags' = recipe_tags
              /\ ~TagRepeated(resp'.data.tags) => UnknownReference(resp', "tags")
    ]_vars

\* the author's update with a repeated tag was refused as a duplicate after
\* the recipe's tags had been replaced once
C15_Witness ==
  /\ resp.op = "api_update"
  /\ resp.target \in DOMAIN recipes
  /\ recipes[resp.target].author = resp.user
  /\ resp.data.tags = <<1, 1>>
  /\ DuplicateReference(resp, "tags")
  /\ <<resp.target, 2>> \in recipe_tags

(***************************************************************************)
(* Claims about what recipe create and update write.                       *)
(***************************************************************************)
\* a non-empty list of existing ingredients without repeats and with amounts
\* >= 1
IngredientsWellFormed(l) ==
  l # <<>> /\ ~HasRepeat(l) /\ ~HasUnknown(l) /\ ~HasBadAmount(l)

\* a non-empty list of existing tags without repeats
TagsWellFormed(l) == l # <<>> /\ ~TagRepeated(l) /\ ~TagUnknown(l)

PayloadWellFormed(d) ==
  /\ d.fields = {"ingredients", "tags", "cooking_time"}
  /\ IngredientsWellFormed(d.ingredients)
  /\ TagsWellFormed(d.tags)
  /\ d.cooking_time >= 1

\* the rows of recipe r are the submitted (ingredient id, amount) pairs
RowsAre(rows, l) ==
  /\ Len(rows) = Len(l)
  /\ {<<rows[k].ingredient, rows[k].amount>> : k \in 1..Len(rows)}
       = {<<l[k].id, l[k].amount>> : k \in 1..Len(l)}

\* the tag links of recipe r are the submitted tags
TagsAre(links, r, l) == {p[2] : p \in {q \in links : q[1] = r}} = {l[k] : k \in 1..Len(l)}

\* C16: a create request with a well-formed payload succeeds; the new recipe
\* has the acting user as author, the submitted (ingredient, amount) pairs as
\* its RecipeIngredient rows and the submitted tags as its tag links.
C16_WellFormedCreateSucceeds ==
  [][(CreateRequest(resp') /\ PayloadWellFormed(resp'.data))
     => /\ resp'.status = 201
        /\ \E r \in DOMAIN recipes' \ DOMAIN recipes :
             /\ recipes'[r].author = resp'.user
             /\ RowsAre(recipe_ingredient'[r], resp'.data.ingredients)
             /\ TagsAre(recipe_tags', r, resp'.data.tags)
    ]_vars

C18_StoredRecipesWellFormed ==
  \A r \in DOMAIN recipes :
    /\ Len(recipe_ingredient[r]) >= 1
    /\ \E p \in recipe_tags : p[1] = r
    /\ \A j, k \in 1..Len(recipe_ingredient[r]) :
         recipe_ingredient[r][j].ingredient = recipe_ingredient[r][k].ingredient => j = k
    /\ \A p \in recipe_tags : p[1] = r => p[2] \in TagIds

(***************************************************************************)
(* Claims about the shopping-list aggregator.                              *)
(***************************************************************************)
\* the RecipeIngredient rows of the recipes in u's cart, each named by its
\* recipe and its position among the recipe's rows
CartRows(u) ==
  UNION {{<<r, k>> : k \in 1..Len(recipe_ingredient[r])} :
           r \in {x \in DOMAIN recipes : RowExists(shopping_cart, u, x)}}

RowIngredient(row) == Ingredient[recipe_ingredient[row[1]][row[2]].ingredient]

RowAmount(row) == recipe_ingredient[row[1]][row[2]].amount

RECURSIVE SumOfRows(_)
SumOfRows(rows) ==
  IF rows = {}
  THEN 0
  ELSE LET row == CHOOSE x \in rows : TRUE
       IN  RowAmount(row) + SumOfRows(rows \ {row})

\* the rows of u's cart recipes whose ingredient has this name and unit
RowsOf(u, name, unit) ==
  {row \in CartRows(u) : /\ RowIngredient(row).name = name
                         /\ RowIngredient(row).measurement_unit = unit}

\* the last request drew u's shopping list
ListDrawn == resp.op = "download_shopping_list" /\ resp.status = 200

\* C9: the shopping list drawn for a user has exactly one line per distinct
\* (name, unit) pair among the RecipeIngredient rows of the user's cart
\* recipes, and the line's amount is the sum of the amounts of those rows;
\* ingredients of one name and two units stay on two lines.
C9_GroupedByNameAndUnit ==
  ListDrawn
  => /\ \A row \in CartRows(resp.user) :
          \E k \in 1..Len(pdf) :
            /\ pdf[k].name = RowIngredient(row).name
            /\ pdf[k].measurement_unit = RowIngredient(row).measurement_unit
     /\ \A k \in 1..Len(pdf) :
          /\ RowsOf(resp.user, pdf[k].name, pdf[k].measurement_unit) # {}
          /\ pdf[k].amount
               = SumOfRows(RowsOf(resp.user, pdf[k].name, pdf[k].measurement_unit))
          /\ \A j \in 1..Len(pdf) :
               (pdf[j].name = pdf[k].name
                /\ pdf[j].measurement_unit = pdf[k].measurement_unit) => j = k

\* position of a name in ascending lexicographic order
NameRank(name) == CASE name = "eggs" -> 1 [] name = "flour" -> 2

\* C10: the lines of a shopping list are in ascending order of ingredient
\* name, whatever the order of the cart recipes and of their rows.
C10_OrderedByName ==
  ListDrawn
  => \A j, k \in 1..Len(pdf) : j < k => NameRank(pdf[j].name) <= NameRank(pdf[k].name)

(***************************************************************************)
(* Claims about atomicity of recipe writes.                                *)
(***************************************************************************)
\* the RecipeIngredient rows of u's cart recipes r..1 read from table, in the
\* order download_shopping_list reads them
RECURSIVE RowsRead(_, _, _)
RowsRead(table, u, r) ==
  IF r = 0
  THEN <<>>
  ELSE (IF RecipeExists(r) /\ RowExists(shopping_cart, u, r) THEN table[r] ELSE <<>>)
       \o RowsRead(table, u, r - 1)

\* the workers that are executing a recipe update
Running == {i \in Requests : upd[i].pc # "idle"}

\* the shopping list of user u if the recipe worker i updates held rows
ListWith(i, u, rows) ==
  collect_ingredients(<<>>, RowsRead([recipe_ingredient EXCEPT ![upd[i].recipe] = rows],
                                     u, MaxRecipes))

\* C19: create and update are atomic with respect to concurrent readers: a
\* request served while an update is being executed never observes the
\* recipe with its old rows deleted and its new rows not all written.  A
\* shopping list drawn while one update is being executed, for a user whose
\* cart holds the recipe, is the list of the recipe's old rows or the list
\* of all its new rows.
C19_ReadersSeeWholeUpdates ==
  [][\A i \in Requests :
       (/\ resp'.op = "download_shopping_list"
        /\ resp'.status = 200
        /\ upd' = upd
        /\ Running = {i}
        /\ RowExists(shopping_cart, resp'.user, upd[i].recipe))
       => \/ pdf' = ListWith(i, resp'.user, upd[i].old_rows)
          \/ pdf' = ListWith(i, resp'.user,
                             _save_ingredients(<<>>, upd[i].data.ingredients).saved)
    ]_vars

\* C20: create and update are all-or-nothing: a create or update request
\* that ends in an error leaves the Recipe rows, the RecipeIngredient rows
\* and the tag links as they were.
C20_FailedWriteLeavesNoTrace ==
  [][(WriteRequest(resp') /\ resp'.status >= 400) => NothingPersisted]_vars

(***************************************************************************)
(* Claims about short links.                                               *)
(***************************************************************************)
\* C21: under any sequence of recipe creations made one after the other no
\* two stored recipes have the same short_link_hash.
C21_StoredHashesDiffer ==
  \A r1, r2 \in DOMAIN recipes :
    recipes[r1].short_link_hash = recipes[r2].short_link_hash => r1 = r2

\* the recipes a stored-hash lookup of h finds
StoredHashLookup(h) == {r \in DOMAIN recipes : recipes[r].short_link_hash = h}

\* C22: the hash in the link get-link returns for recipe R is R's stored
\* short_link_hash, so a lookup of that hash among the stored hashes finds
\* exactly R.
C22_LinkResolvesToItsRecipe ==
  (resp.op = "api_get_link" /\ resp.status = 200 /\ resp.target \in DOMAIN recipes)
  => /\ resp.detail = recipes[resp.target].short_link_hash
     /\ StoredHashLookup(resp.detail) = {resp.target}

\* a string of the space is stored on no recipe
SomeHashFree == \E h \in Hashes : ~short_link_exists(h)

\* C30: whenever some hash of the space is stored on no recipe, a call of
\* generate_short_link under way eventually returns; the value a call
\* returns is stored on no recipe at the moment of the check and becomes the
\* new recipe's hash; and no call returns while every hash is in use.
C30_GenerationTerminates ==
  /\ (gen.pc # "idle" /\ SomeHashFree) ~> (gen.pc = "idle")
  /\ [][(gen.pc # "idle" /\ gen'.pc = "idle")
        => /\ ~short_link_exists(gen.short_link)
           /\ SomeHashFree
           /\ recipes' = Recipe_insert(gen.author, gen.short_link)
       ]_vars

\* the loop of generate_short_link was sent back to the draw by a stored
\* value while two recipes are stored and a hash is still free
C30_Witness ==
  /\ gen.pc = "get_random_string"
  /\ gen.short_link # ""
  /\ Cardinality(DOMAIN recipes) >= 2
  /\ SomeHashFree

(***************************************************************************)
(* Claims about the rendered shopping list.                                *)
(***************************************************************************)
\* the last request had a document drawn from a list of n entries
Rendered(n) ==
  /\ resp.status = 200
  /\ \/ resp.op = "generate_pdf" /\ resp.target = n
     \/ resp.op = "download_shopping_list" /\ Len(pdf) = n

\* the text the renderer of the last request gives entry k of its list
EntryText(k) ==
  IF resp.op = "generate_pdf"
  THEN generate_pdf_text(ValuesOf(k)[k])
  ELSE ingredient_text(pdf[k].name, pdf[k])

\* the height below which the renderer of the last request breaks the page
BottomThreshold == IF resp.op = "generate_pdf" THEN 40 ELSE 50

\* the height of the first line of a page after a break
TopOfPage == IF resp.op = "generate_pdf" THEN letter_height - 40 ELSE A4_height - 50

BodyFont == IF resp.op = "generate_pdf" THEN "DejaVuSans 12" ELSE "Helvetica 12"

\* the entry lines of page p: every line but the header, which opens page 1
EntryLines(p) == IF p = 1 THEN Tail(doc[1]) ELSE doc[p]

RECURSIVE EntryLinesUpTo(_)
EntryLinesUpTo(p) == IF p = 0 THEN <<>> ELSE EntryLinesUpTo(p - 1) \o EntryLines(p)

\* C23: for a user whose shopping cart is empty the aggregator yields the
\* empty sequence, and the document drawn is one page holding the header
\* line, which names the user, and one line saying that the list is empty.
C23_EmptyCartDocument ==
  (ListDrawn /\ \A r \in RecipeIds : ~RowExists(shopping_cart, resp.user, r))
  => /\ pdf = <<>>
     /\ Len(doc) = 1
     /\ Len(doc[1]) = 2
     /\ \E k \in 1..Len(doc[1][1].text) : doc[1][1].text[k] = resp.user
     /\ doc[1][2].text = <<"shopping list is empty">>

\* C25: for a list of n entries the renderer draws exactly n entry lines,
\* the entries in list order, none below the bottom threshold; a page break
\* happens only between two entries, so the page before it ends with an
\* entry line and the page after it starts with one, drawn at the top with
\* the font applied again.
C25_EveryEntryOnceOnOnePage ==
  \A n \in 1..MaxEntries :
    Rendered(n)
    => /\ Len(EntryLinesUpTo(Len(doc))) = n
       /\ \A k \in 1..n : /\ EntryLinesUpTo(Len(doc))[k].text = EntryText(k)
                          /\ EntryLinesUpTo(Len(doc))[k].y >= BottomThreshold
       /\ \A p \in 2..Len(doc) : /\ EntryLines(p - 1) # <<>>
                                 /\ doc[p] # <<>>
                                 /\ doc[p][1].y = TopOfPage
                                 /\ doc[p][1].font = BodyFont

\* C28: for a list that is not empty every page of the document carries at
\* least one entry line, also when the entries exactly fill the last page.
C28_NoPageWithoutEntry ==
  \A n \in 1..MaxEntries :
    Rendered(n) => \A p \in 1..Len(doc) : EntryLines(p) # <<>>

(***************************************************************************)
(* Claims about the order of the cart.                                     *)
(***************************************************************************)
\* carts built and emptied through the API one recipe at a time, and the
\* list downloaded in between
NextCartOrder ==
  \E u \in Actors, pk \in PkInputs :
    \/ api_shopping_cart(u, pk, "post")
    \/ api_shopping_cart(u, pk, "delete")
    \/ download_shopping_list(u)

SpecCartOrder == InitSchemaModels /\ [][NextCartOrder]_vars

\* the recipes u's cart holds
CartSet(u) == {r \in RecipeIds : RowExists(shopping_cart, u, r)}

\* every way of putting the recipes of S in a cart one after the other, a
\* recipe possibly more than once
CartsOf(S) ==
  {c \in UNION {[1..n -> S] : n \in 0..(MaxRecipes + 1)} : \A r \in S : CountIn(c, r) > 0}

\* C24: the shopping list drawn depends only on the set of recipes in the
\* cart: whatever the order in which the recipes were added, and whether or
\* not one was removed and added again, the lines are the same.
C24_ListDependsOnCartSetOnly ==
  ListDrawn
  => \A c \in CartsOf(CartSet(resp.user)) :
       pdf = collect_ingredients(<<>>, recipe_ingredients(c))

\* a list was drawn for a cart that holds every recipe
C24_Witness ==
  /\ ListDrawn
  /\ CartSet(resp.user) = RecipeIds
  /\ Len(pdf) > 0

(***************************************************************************)
(* Claims about the deletion of a recipe.                                  *)
(***************************************************************************)
\* users favorite the recipes of others, put recipes in carts, delete them,
\* also address them once they are gone, download the list, and delete and
\* register users
NextCascade ==
  \E u \in Users, pk \in RecipeIds :
    \/ (RecipeExists(pk) => recipes[pk].author # u) /\ api_favorite(u, pk, "post")
    \/ api_shopping_cart(u, pk, "post")
    \/ api_destroy(u, pk)
    \/ download_shopping_list(u)
    \/ \E id \in Users : foodgram_users_destroy(u, id) \/ api_users_create(u, id)

SpecCascade == InitSchemaModels /\ [][NextCascade]_vars

\* no row of any table references recipe r
Unreferenced(r) ==
  /\ recipe_ingredient[r] = <<>>
  /\ \A p \in recipe_tags : p[1] # r
  /\ \A u \in Users : favorite[<<u, r>>] = 0 /\ shopping_cart[<<u, r>>] = 0

\* the rows the recipes r..1 had before any deletion, newest recipe first,
\* for the recipes that still exist and are in u's cart
RECURSIVE LiveCartRows(_, _)
LiveCartRows(u, r) ==
  IF r = 0
  THEN <<>>
  ELSE (IF RecipeExists(r) /\ RowExists(shopping_cart, u, r) THEN FixtureRows[r] ELSE <<>>)
       \o LiveCartRows(u, r - 1)

\* the step is a successful deletion of recipe pk
Deletes(pk) == resp'.op = "api_destroy" /\ resp'.status = 204 /\ resp'.target = pk

\* C26: once a recipe is deleted, in every later state no RecipeIngredient,
\* tag, Favorite or ShoppingCart row references it and every list drawn is
\* made of the rows of the remaining recipes of the cart only; the deletion
\* leaves the rows of every other recipe as they were.
C26_DeletionCascades ==
  /\ [](\A r \in RecipeIds : ~RecipeExists(r) => Unreferenced(r))
  /\ [](ListDrawn => pdf = collect_ingredients(<<>>, LiveCartRows(resp.user, MaxRecipes)))
  /\ [][\A pk \in RecipeIds :
         Deletes(pk)
         => /\ ~RecipeExists(pk)'
            /\ \A r \in RecipeIds \ {pk} :
                 /\ RecipeExists(r)' = RecipeExists(r)
                 /\ RecipeExists(r) => recipes'[r] = recipes[r]
                 /\ recipe_ingredient'[r] = recipe_ingredient[r]
                 /\ {p \in recipe_tags' : p[1] = r} = {p \in recipe_tags : p[1] = r}
                 /\ \A u \in Users : /\ favorite'[<<u, r>>] = favorite[<<u, r>>]
                                    /\ shopping_cart'[<<u, r>>] = shopping_cart[<<u, r>>]]_vars

\* an author has just deleted a recipe while some user holds another recipe
\* in the cart and a list made of it had been drawn
C26_Witness ==
  /\ resp.op = "api_destroy"
  /\ resp.status = 204
  /\ ~RecipeExists(resp.target)
  /\ \E u \in Users, r \in RecipeIds : RecipeExists(r) /\ RowExists(shopping_cart, u, r)
  /\ Len(pdf) > 0

(***************************************************************************)
(* Claims about the order of the checks of validate_ingredients.           *)
(***************************************************************************)
MaxItems == 3

\* the entries tried: valid ones, an amount below 1, an amount that is no
\* number, and an unknown id with an amount below 1
ItemInputs ==
  {Item(1, 1), Item(2, 1), Item(1, 0), Item(NoSuchId, 0),
   [Item(1, 0) EXCEPT !.amount_is = "text"]}

\* every non-empty list of at most MaxItems such entries
ItemLists == UNION {[1..n -> ItemInputs] : n \in 1..MaxItems}

\* POST /recipes/ by a signed-in user with such a list of ingredients
NextValidate ==
  \E u \in Users, value \in ItemLists :
    api_create(u, [WellFormed EXCEPT !.ingredients = value])

SpecValidate == InitSchemaModels /\ [][NextValidate]_vars

\* what is wrong with entry k of the list, looked at on its own: its id is
\* that of an earlier entry, else names no ingredient, else its amount is no
\* number, else is below 1
ElementError(value, k) ==
  IF \E j \in 1..(k - 1) : value[j].id = value[k].id THEN "ingredients_repeat"
  ELSE IF value[k].id \notin IngredientIds THEN "ingredient_does_not_exist"
  ELSE IF value[k].amount_is \in {"text", "missing"} THEN "amount_not_a_number"
  ELSE IF value[k].amount_is = "number" /\ value[k].amount < 1 THEN "amount_below_1"
  ELSE "ok"

Offenders(value) == {k \in 1..Len(value) : ElementError(value, k) # "ok"}

FirstOffender(value) == CHOOSE k \in Offenders(value) : \A j \in Offenders(value) : k <= j

\* the errors the response reports on the field ingredients
IngredientsErrors(r) == {e[2] : e \in {x \in r.errors : x[1] = "ingredients"}}

\* C27: the error reported for a list of ingredients is that of its first
\* offending entry, and for one entry a repeated id is reported before an
\* unknown id, and an unknown id before a bad amount; a list without an
\* offending entry gets no error.
C27_FirstOffenderReported ==
  (resp.op = "api_create" /\ resp.data.ingredients # <<>>)
  => IngredientsErrors(resp) =
       IF Offenders(resp.data.ingredients) = {}
       THEN {}
       ELSE {ElementError(resp.data.ingredients, FirstOffender(resp.data.ingredients))}

\* a list whose second and third entries both offend, the second both by
\* repeating the id of the first and by its amount, was refused as a repeat
C27_Witness ==
  /\ resp.op = "api_create"
  /\ resp.status = 400
  /\ Len(resp.data.ingredients) = 3
  /\ Offenders(resp.data.ingredients) = {2, 3}
  /\ resp.data.ingredients[2].id = resp.data.ingredients[1].id
  /\ resp.data.ingredients[2].amount < 1
  /\ ElementError(resp.data.ingredients, 3) # "ingredients_repeat"
  /\ IngredientsErrors(resp) = {"ingredients_repeat"}

(***************************************************************************)
(* backend/api/views.py: RecipeViewSet.get_queryset and the list it feeds  *)
(***************************************************************************)
\* the values of a query parameter tried: not sent, '1', '0'
FlagInputs == {"absent", "1", "0"}

\* the query parameters of a request, as the response keeps them
Params(is_favorited, is_in_shopping_cart) ==
  [is_favorited |-> is_favorited, is_in_shopping_cart |-> is_in_shopping_cart]

\* n times the recipe r
RECURSIVE JoinRows(_, _)
JoinRows(r, n) == IF n = 0 THEN <<>> ELSE <<r>> \o JoinRows(r, n - 1)

\* Recipe.objects.all() for the recipes r..1, newest first
RECURSIVE objects_all(_)
objects_all(r) ==
  IF r = 0 THEN <<>>
  ELSE (IF RecipeExists(r) THEN <<r>> ELSE <<>>) \o objects_all(r - 1)

\* queryset.filter(favorites__user=user): the join gives a recipe once per
\* Favorite row of the user
RECURSIVE filter_favorites(_, _)
filter_favorites(u, r) ==
  IF r = 0 THEN <<>>
  ELSE (IF RecipeExists(r) THEN JoinRows(r, favorite[<<u, r>>]) ELSE <<>>)
       \o filter_favorites(u, r - 1)

\* queryset.exclude(favorites__user=user)
RECURSIVE exclude_favorites(_, _)
exclude_favorites(u, r) ==
  IF r = 0 THEN <<>>
  ELSE (IF RecipeExists(r) /\ ~RowExists(favorite, u, r) THEN <<r>> ELSE <<>>)
       \o exclude_favorites(u, r - 1)

\* get_queryset up to the is_favorited filter: applied only for a signed-in
\* user and the values '1' and '0'
get_queryset(u, is_favorited) ==
  IF is_favorited \in {"1", "0"} /\ is_authenticated(u)
  THEN IF is_favorited = "1"
       THEN filter_favorites(u, MaxRecipes)
       ELSE exclude_favorites(u, MaxRecipes)
  ELSE objects_all(MaxRecipes)

\* RecipeSerializer.get_is_favorited / get_is_in_shopping_cart
get_is_favorited(u, obj) == is_authenticated(u) /\ RowExists(favorite, u, obj)

get_is_in_shopping_cart(u, obj) == is_authenticated(u) /\ RowExists(shopping_cart, u, obj)

\* GET /recipes/?is_favorited=..&is_in_shopping_cart=..: get_queryset, then
\* the page is serialized.  The lookup shoppingcart__user names no field of
\* Recipe (the reverse name of ShoppingCart.recipe is shopping_cart), so
\* building that filter raises FieldError; serializing any recipe raises
\* AttributeError on the source 'description', before its flags are read.
\* Only an empty page is answered.
api_list(u, is_favorited, is_in_shopping_cart) ==
  /\ resp' =
       IF invalid_token(u)
       THEN [Response("api_list", u, NoSuchId, 401, "invalid_token")
               EXCEPT !.data = Params(is_favorited, is_in_shopping_cart)]
       ELSE IF is_in_shopping_cart \in {"1", "0"} /\ is_authenticated(u)
       THEN [Response("api_list", u, NoSuchId, 500, "FieldError")
               EXCEPT !.data = Params(is_favorited, is_in_shopping_cart)]
       ELSE IF get_queryset(u, is_favorited) # <<>>
       THEN [Response("api_list", u, NoSuchId, 500, "AttributeError")
               EXCEPT !.data = Params(is_favorited, is_in_shopping_cart)]
       ELSE [Response("api_list", u, NoSuchId, 200, "results")
               EXCEPT !.data = Params(is_favorited, is_in_shopping_cart),
                      !.listed = {get_queryset(u, is_favorited)[k] :
                                    k \in 1..Len(get_queryset(u, is_favorited))}]
  /\ UNCHANGED <<users, favorite_unique, USE_POSTGRES, recipes, recipe_ingredient, recipe_tags,
                 favorite, shopping_cart, subscription, req, pdf, upd,
                 gen, doc>>

\* favorites and carts filled and emptied, and the recipes listed
NextList ==
  \/ \E u \in Actors, pk \in PkInputs :
       \/ api_favorite(u, pk, "post")
       \/ api_favorite(u, pk, "delete")
       \/ api_shopping_cart(u, pk, "post")
       \/ api_shopping_cart(u, pk, "delete")
  \/ \E u \in Actors, is_favorited \in FlagInputs, is_in_shopping_cart \in FlagInputs :
       api_list(u, is_favorited, is_in_shopping_cart)

SpecList == InitSchemaModels /\ [][NextList]_vars

(***************************************************************************)
(* Claims about the filters of the recipe list.                            *)
(***************************************************************************)
\* the recipes the list must hold for the caller and the two parameters
Expected(u, is_favorited, is_in_shopping_cart) ==
  {r \in DOMAIN recipes :
     /\ (is_authenticated(u) /\ is_favorited = "1") => get_is_favorited(u, r)
     /\ (is_authenticated(u) /\ is_favorited = "0") => ~get_is_favorited(u, r)
     /\ (is_authenticated(u) /\ is_in_shopping_cart = "1") => get_is_in_shopping_cart(u, r)
     /\ (is_authenticated(u) /\ is_in_shopping_cart = "0") => ~get_is_in_shopping_cart(u, r)}

\* C29: the list asked for with is_favorited / is_in_shopping_cart is
\* answered with exactly the recipes whose membership for the caller agrees
\* with the parameters; for an anonymous caller the parameters are ignored
\* and every recipe is listed, its flags being false.
C29_FiltersAgreeWithMembership ==
  resp.op = "api_list"
  => /\ resp.status = 200
     /\ resp.listed = Expected(resp.user, resp.data.is_favorited, resp.data.is_in_shopping_cart)
     /\ ~is_authenticated(resp.user)
        => \A r \in resp.listed : ~get_is_favorited(resp.user, r)
                                  /\ ~get_is_in_shopping_cart(resp.user, r)

====
